---- MODULE Spec2Model ----
(***************************************************************************)
(* A model of metadata_please: extraction of Python package metadata from  *)
(* wheels, sdists and source checkouts.                                    *)
(*                                                                         *)
(* Text is modelled character by character: a Python str (or bytes) is a   *)
(* sequence of one-character strings, so "a ; b" is                        *)
(* <<"a", " ", ";", " ", "b">>.  Optional[str] is a set with at most one   *)
(* element: None is {} and a string s is {s}.                              *)
(*                                                                         *)
(* Every public function is one action: it is enabled on a pending call    *)
(* (pc = "call"), and leaves its return value in ret or the exception it   *)
(* raised in exc (pc = "done").                                            *)
(***************************************************************************)
EXTENDS Naturals, Integers, Sequences, FiniteSets, TLC

VARIABLES
    pc,          \* "call": a call is pending; "done": it returned or raised
    call,        \* the pending call: [fn |-> name, ...arguments]
    ret,         \* the value returned (<<>> until then, and when it raised)
    exc,         \* the exception raised: [type |-> "None"] when none was
    files_read   \* the container's read log: names passed to read/extractfile

vars == <<pc, call, ret, exc, files_read>>

NoException == [type |-> "None"]

(***************************************************************************)
(* Bounds of the model.                                                    *)
(***************************************************************************)
MaxFragments == 3      \* number of fragments passed to combine_markers
MaxFragmentLen == 2    \* characters in one marker fragment
MaxReqLen == 4         \* characters in a requirement given to merge_extra_marker

(***************************************************************************)
(* Python str operations.                                                  *)
(***************************************************************************)
\* str.isspace() of one character, over the characters the model uses
IsSpace(c) == c \in {" ", "\t", "\n", "\r"}

RECURSIVE lstrip(_)
lstrip(s) == IF s # <<>> /\ IsSpace(Head(s)) THEN lstrip(Tail(s)) ELSE s

RECURSIVE rstrip(_)
rstrip(s) ==
    IF s # <<>> /\ IsSpace(s[Len(s)]) THEN rstrip(SubSeq(s, 1, Len(s) - 1)) ELSE s

\* str.strip()
strip(s) == rstrip(lstrip(s))

\* sep.join(parts)
RECURSIVE join(_, _)
join(sep, parts) ==
    IF parts = <<>> THEN <<>>
    ELSE IF Len(parts) = 1 THEN parts[1]
    ELSE parts[1] \o sep \o join(sep, Tail(parts))

\* str.find(c) for a one-character c, 1-based; 0 when c does not occur
find(s, c) ==
    LET found == {i \in 1..Len(s) : s[i] = c}
    IN  IF found = {} THEN 0 ELSE CHOOSE i \in found : \A j \in found : i <= j

\* c in s
contains(s, c) == \E i \in 1..Len(s) : s[i] = c

\* s.startswith(p), s.endswith(p)
startswith(s, p) == Len(p) <= Len(s) /\ SubSeq(s, 1, Len(p)) = p
endswith(s, p) == Len(p) <= Len(s) /\ SubSeq(s, Len(s) - Len(p) + 1, Len(s)) = p

\* all sequences over S of length at most n
SeqsUpTo(S, n) == UNION {[1..k -> S] : k \in 0..n}

(***************************************************************************)
(* source_checkout.py: the marker/requirement synthesizer.                 *)
(***************************************************************************)
\* " and "
AND_SEP == <<" ", "a", "n", "d", " ">>
\* 'extra == "'
EXTRA_EQ_DQ == <<"e", "x", "t", "r", "a", " ", "=", "=", " ", "\"">>
\* ' ; '
SEMI_SEP == <<" ", ";", " ">>

paren(m) == <<"(">> \o m \o <<")">>

\* a variant that parenthesises a single remaining fragment as well
combine_markers_always_wrapped(markers) ==
    LET filtered_markers == SelectSeq(markers, LAMBDA m : m # <<>> /\ strip(m) # <<>>)
    IN  join(AND_SEP, [i \in 1..Len(filtered_markers) |-> paren(filtered_markers[i])])

combine_markers(markers) ==
    LET filtered_markers == SelectSeq(markers, LAMBDA m : m # <<>> /\ strip(m) # <<>>)
    IN  IF Len(filtered_markers) = 0 THEN <<>>
        ELSE IF Len(filtered_markers) = 1 THEN filtered_markers[1]
        ELSE join(AND_SEP,
                  [i \in 1..Len(filtered_markers) |-> paren(filtered_markers[i])])

\* value.partition(";"): <<before, after>> of the first ";"
partition_semi(value) ==
    LET i == find(value, ";")
    IN  <<SubSeq(value, 1, i - 1), SubSeq(value, i + 1, Len(value))>>

\* a variant that splits at the last ";" instead of the first
rpartition_semi(value) ==
    LET i == CHOOSE k \in 1..Len(value) :
                 value[k] = ";" /\ \A j \in (k + 1)..Len(value) : value[j] # ";"
    IN  <<SubSeq(value, 1, i - 1), SubSeq(value, i + 1, Len(value))>>

extra_clause(extra_name) == EXTRA_EQ_DQ \o extra_name \o <<"\"">>

\* the marker branch of merge_extra_marker, given the two sides of the split
merge_split(extra_name, ab) ==
    LET a == strip(ab[1])
        b == strip(ab[2])
        c == extra_clause(extra_name)
    IN  a \o SEMI_SEP \o combine_markers(<<b, c>>)

merge_extra_marker_last_semi(extra_name, value) ==
    IF ~contains(value, ";")
    THEN value \o SEMI_SEP \o extra_clause(extra_name)
    ELSE merge_split(extra_name, rpartition_semi(value))

merge_extra_marker(extra_name, value) ==
    IF ~contains(value, ";")
    THEN value \o SEMI_SEP \o extra_clause(extra_name)
    ELSE merge_split(extra_name, partition_semi(value))

(***************************************************************************)
(* The marker synthesizer as a state machine: one call, one return.        *)
(***************************************************************************)
MarkerChars == {"a", " "}
Fragments(maxLen) == SeqsUpTo(MarkerChars, maxLen)
ReqChars == {"a", ";", " "}
ExtraNames == {<<"e">>, <<"d", "e", "v">>}

MarkerCalls(maxFragments, maxFragmentLen, maxReqLen) ==
    {[fn |-> "combine_markers", markers |-> ms] :
        ms \in SeqsUpTo(Fragments(maxFragmentLen), maxFragments)}
    \cup
    {[fn |-> "merge_extra_marker", extra_name |-> e, value |-> v] :
        e \in ExtraNames, v \in SeqsUpTo(ReqChars, maxReqLen)}

InitMarkers ==
    /\ pc = "call"
    /\ call \in MarkerCalls(MaxFragments, MaxFragmentLen, MaxReqLen)
    /\ ret = <<>>
    /\ exc = NoException
    /\ files_read = <<>>

CombineMarkers ==
    /\ pc = "call"
    /\ call.fn = "combine_markers"
    /\ ret' = combine_markers(call.markers)
    /\ pc' = "done"
    /\ UNCHANGED <<call, exc, files_read>>

MergeExtraMarker ==
    /\ pc = "call"
    /\ call.fn = "merge_extra_marker"
    /\ ret' = merge_extra_marker(call.extra_name, call.value)
    /\ pc' = "done"
    /\ UNCHANGED <<call, exc, files_read>>

NextMarkers == CombineMarkers \/ MergeExtraMarker

SpecMarkers == InitMarkers /\ [][NextMarkers]_vars

(***************************************************************************)
(* Properties of the marker synthesizer.                                   *)
(***************************************************************************)
\* a fragment with at least one non-whitespace character
NonBlank(m) == \E i \in 1..Len(m) : ~IsSpace(m[i])

RECURSIVE NonBlankOf(_)
NonBlankOf(ms) ==
    IF ms = <<>> THEN <<>>
    ELSE IF NonBlank(Head(ms)) THEN <<Head(ms)>> \o NonBlankOf(Tail(ms))
    ELSE NonBlankOf(Tail(ms))

\* "(g1) and (g2) and ... and (gk)", k >= 1
RECURSIVE ParenAnd(_)
ParenAnd(gs) ==
    IF Len(gs) = 1 THEN <<"(">> \o gs[1] \o <<")">>
    ELSE <<"(">> \o gs[1] \o <<")", " ", "a", "n", "d", " ">> \o ParenAnd(Tail(gs))

CombineReturned == pc = "done" /\ call.fn = "combine_markers"

\* C1: combine_markers drops the empty and whitespace-only fragments; with
\* none left it returns "", with one left that fragment unchanged, and with
\* k >= 2 left "(g1) and ... and (gk)" in argument order.
C1_CombineMarkers ==
    CombineReturned =>
        LET g == NonBlankOf(call.markers)
        IN  /\ Len(g) = 0 => ret = <<>>
            /\ Len(g) = 1 => ret = g[1]
            /\ Len(g) >= 2 => ret = ParenAnd(g)

\* a call where a blank fragment was dropped between two kept ones
C1_Witness ==
    /\ CombineReturned
    /\ Len(call.markers) = 3
    /\ ~NonBlank(call.markers[2])
    /\ call.markers[2] # <<>>
    /\ Len(NonBlankOf(call.markers)) = 2
    /\ call.markers[1] # call.markers[3]

MergeReturned == pc = "done" /\ call.fn = "merge_extra_marker"

\* the two sides of the first ";" of v, each without surrounding whitespace
FirstSemi(v) == CHOOSE i \in 1..Len(v) : v[i] = ";" /\ \A j \in 1..(i - 1) : v[j] # ";"
ReqPart(v) == strip(SubSeq(v, 1, FirstSemi(v) - 1))
MarkerPart(v) == strip(SubSeq(v, FirstSemi(v) + 1, Len(v)))

\* 'extra == "<extra>"'
ExtraClause(e) == <<"e", "x", "t", "r", "a", " ", "=", "=", " ", "\"">> \o e \o <<"\"">>

\* C2: without ";" merge_extra_marker appends ' ; extra == "<extra>"'; with
\* ";" it splits at the first one, strips both sides, and joins the
\* requirement part with '(b) and (extra == "<extra>")' for a non-empty
\* marker b and with the bare extra clause for an empty one.
C2_MergeExtraMarker ==
    MergeReturned =>
        LET v == call.value
            c == ExtraClause(call.extra_name)
        IN  IF \A i \in 1..Len(v) : v[i] # ";"
            THEN ret = v \o <<" ", ";", " ">> \o c
            ELSE IF MarkerPart(v) = <<>>
            THEN ret = ReqPart(v) \o <<" ", ";", " ">> \o c
            ELSE ret = ReqPart(v) \o <<" ", ";", " ", "(">> \o MarkerPart(v)
                           \o <<")", " ", "a", "n", "d", " ", "(">> \o c \o <<")">>

\* a requirement with two ";" and a non-empty marker with spaces around it
C2_Witness ==
    /\ MergeReturned
    /\ Len(SelectSeq(call.value, LAMBDA ch : ch = ";")) = 2
    /\ MarkerPart(call.value) # <<>>
    /\ ReqPart(call.value) # <<>>

(***************************************************************************)
(* source_checkout.py: the version-range translator.                       *)
(***************************************************************************)
MaxParts == 3          \* dot-separated components in one generated version

Digits == {"0", "1", "2", "3", "4", "5", "6", "7", "8", "9"}

DigitVal(c) ==
    CASE c = "0" -> 0 [] c = "1" -> 1 [] c = "2" -> 2 [] c = "3" -> 3 [] c = "4" -> 4
      [] c = "5" -> 5 [] c = "6" -> 6 [] c = "7" -> 7 [] c = "8" -> 8 [] c = "9" -> 9

DigitChar(n) == CHOOSE c \in Digits : DigitVal(c) = n

\* whether int(s) succeeds, over the characters the model uses
int_ok(s) == s # <<>> /\ \A i \in 1..Len(s) : s[i] \in Digits

\* int(s) of a digit string
RECURSIVE int(_)
int(s) ==
    IF Len(s) = 1 THEN DigitVal(s[1])
    ELSE int(SubSeq(s, 1, Len(s) - 1)) * 10 + DigitVal(s[Len(s)])

\* str(n) of a natural number
RECURSIVE str(_)
str(n) == IF n < 10 THEN <<DigitChar(n)>> ELSE str(n \div 10) \o <<DigitChar(n % 10)>>

\* s.split(c) for a one-character separator
RECURSIVE split(_, _)
split(s, c) ==
    LET i == find(s, c)
    IN  IF i = 0 THEN <<s>>
        ELSE <<SubSeq(s, 1, i - 1)>> \o split(SubSeq(s, i + 1, Len(s)), c)

\* while len(parts) < 3: parts.append("0")
RECURSIVE pad3(_)
pad3(parts) == IF Len(parts) < 3 THEN pad3(Append(parts, <<"0">>)) ELSE parts

\* the outcome of a function: the value it returned, or the exception it raised
Returned(v) == [exc |-> NoException, value |-> v]
Raised(e) == [exc |-> [type |-> e], value |-> <<>>]

\* f">={specifier[1:]},<{incremented_version}"
range_of(specifier, incremented) ==
    <<">", "=">> \o Tail(specifier) \o <<",", "<">> \o join(<<".">>, incremented)

\* a variant without "del incremented[i + 1 :]"
_translate_caret_no_truncate(specifier) ==
    IF contains(specifier, ",") THEN Raised("AssertionError")
    ELSE
    LET parts == pad3(split(Tail(specifier), "."))
        nonzero == {i \in 1..Len(parts) : parts[i] # <<"0">>}
    IN  IF nonzero = {} THEN Raised("ValueError")
        ELSE LET i == CHOOSE k \in nonzero : \A j \in nonzero : k <= j
             IN  IF ~int_ok(parts[i]) THEN Raised("ValueError")
                 ELSE Returned(range_of(specifier,
                          [parts EXCEPT ![i] = str(int(parts[i]) + 1)]))

_translate_caret(specifier) ==
    IF contains(specifier, ",") THEN Raised("AssertionError")
    ELSE
    LET parts == pad3(split(Tail(specifier), "."))
        nonzero == {i \in 1..Len(parts) : parts[i] # <<"0">>}
    IN  IF nonzero = {} THEN Raised("ValueError")
        ELSE LET i == CHOOSE k \in nonzero : \A j \in nonzero : k <= j
             IN  IF ~int_ok(parts[i]) THEN Raised("ValueError")
                 ELSE Returned(range_of(specifier,
                          SubSeq(parts, 1, i - 1) \o <<str(int(parts[i]) + 1)>>))

\* a variant that increments the last component of the whole version
_translate_tilde_all_parts(specifier) ==
    IF contains(specifier, ",") THEN Raised("AssertionError")
    ELSE
    LET parts == split(Tail(specifier), ".")
        n == Len(parts)
    IN  IF ~int_ok(parts[n]) THEN Raised("ValueError")
        ELSE Returned(range_of(specifier,
                 SubSeq(parts, 1, n - 1) \o <<str(int(parts[n]) + 1)>>))

_translate_tilde(specifier) ==
    IF contains(specifier, ",") THEN Raised("AssertionError")
    ELSE
    LET parts == split(Tail(specifier), ".")
        incremented == SubSeq(parts, 1, IF Len(parts) < 2 THEN Len(parts) ELSE 2)
        n == Len(incremented)
    IN  IF ~int_ok(incremented[n]) THEN Raised("ValueError")
        ELSE Returned(range_of(specifier,
                 SubSeq(incremented, 1, n - 1) \o <<str(int(incremented[n]) + 1)>>))

(***************************************************************************)
(* The version-range translator as a state machine.                        *)
(***************************************************************************)
\* components: zero, one, a carry, leading zeros, two digits, and a
\* component that is not a number
Components ==
    {<<"0">>, <<"1">>, <<"9">>, <<"0", "0">>, <<"0", "9">>, <<"1", "0">>, <<"x">>}

Versions(maxParts) ==
    {join(<<".">>, cs) : cs \in (SeqsUpTo(Components, maxParts) \ {<<>>})}

VersionCalls(maxParts) ==
    {[fn |-> "_translate_caret", specifier |-> <<"^">> \o v] :
        v \in Versions(maxParts)}
    \cup
    {[fn |-> "_translate_tilde", specifier |-> <<"~">> \o v] :
        v \in Versions(maxParts)}

InitVersion ==
    /\ pc = "call"
    /\ call \in VersionCalls(MaxParts)
    /\ ret = <<>>
    /\ exc = NoException
    /\ files_read = <<>>

\* the outcome r of a function that returns a value or raises
Finish(r) ==
    /\ ret' = r.value
    /\ exc' = r.exc
    /\ pc' = "done"

TranslateCaret ==
    /\ pc = "call"
    /\ call.fn = "_translate_caret"
    /\ Finish(_translate_caret(call.specifier))
    /\ UNCHANGED <<call, files_read>>

TranslateTilde ==
    /\ pc = "call"
    /\ call.fn = "_translate_tilde"
    /\ Finish(_translate_tilde(call.specifier))
    /\ UNCHANGED <<call, files_read>>

NextVersion == TranslateCaret \/ TranslateTilde

SpecVersion == InitVersion /\ [][NextVersion]_vars

(***************************************************************************)
(* Properties of the version-range translator.                             *)
(***************************************************************************)
\* the dot-separated components of the version of a specifier
ComponentsOf(specifier) == split(Tail(specifier), ".")

AllIntegers(cs) ==
    \A i \in 1..Len(cs) : cs[i] # <<>> /\ \A j \in 1..Len(cs[i]) : cs[i][j] \in Digits

\* cs with "0" components appended up to length n
ZeroPadded(cs, n) == [i \in 1..(IF Len(cs) < n THEN n ELSE Len(cs)) |->
                         IF i <= Len(cs) THEN cs[i] ELSE <<"0">>]

\* the components up to and including the leftmost one that is not "0",
\* that one incremented
RECURSIVE CaretUpper(_)
CaretUpper(cs) ==
    IF Head(cs) = <<"0">> THEN <<"0", ".">> \o CaretUpper(Tail(cs))
    ELSE str(int(Head(cs)) + 1)

\* numeric value of component i of a version, 0 beyond its end
Num(cs, i) == IF i <= Len(cs) THEN int(cs[i]) ELSE 0

\* version order: componentwise numeric comparison, missing components are 0
VersionLess(a, b) ==
    \E i \in 1..(Len(a) + Len(b)) :
        /\ Num(a, i) < Num(b, i)
        /\ \A j \in 1..(i - 1) : Num(a, j) = Num(b, j)

CaretReturned == pc = "done" /\ call.fn = "_translate_caret"

TildeReturned == pc = "done" /\ call.fn = "_translate_tilde"

\* C5: for a tilde specifier ~V with integer components, _translate_tilde
\* returns ">=V,<U" where U is the first two components of V (the only one
\* if V has one) with the last of those incremented.
C5_TranslateTilde ==
    LET v == ComponentsOf(call.specifier)
    IN  (TildeReturned /\ AllIntegers(v)) =>
            /\ exc.type = "None"
            /\ ret = <<">", "=">> \o Tail(call.specifier) \o <<",", "<">> \o
                     (IF Len(v) = 1 THEN str(int(v[1]) + 1)
                      ELSE v[1] \o <<".">> \o str(int(v[2]) + 1))

\* ~1.9.0 gives >=1.9.0,<1.10
C5_Witness ==
    /\ TildeReturned
    /\ call.specifier = <<"~", "1", ".", "9", ".", "0">>
    /\ ret = <<">", "=", "1", ".", "9", ".", "0", ",", "<", "1", ".", "1", "0">>

(***************************************************************************)
(* types.py: the requires.txt converter.                                   *)
(***************************************************************************)
MaxLines == 3          \* lines in one generated requires.txt

\* str.splitlines(), over texts whose only line break is "\n"
RECURSIVE splitlines(_)
splitlines(s) ==
    IF s = <<>> THEN <<>>
    ELSE LET i == find(s, "\n")
         IN  IF i = 0 THEN <<s>>
             ELSE <<SubSeq(s, 1, i - 1)>> \o splitlines(SubSeq(s, i + 1, Len(s)))

\* one character of repr(s) inside the quotes q
repr_char(c, q) ==
    IF c = q \/ c = "\\" THEN <<"\\", c>>
    ELSE IF c = "\n" THEN <<"\\", "n">>
    ELSE IF c = "\t" THEN <<"\\", "t">>
    ELSE IF c = "\r" THEN <<"\\", "r">>
    ELSE <<c>>

RECURSIVE repr_body(_, _)
repr_body(s, q) ==
    IF s = <<>> THEN <<>> ELSE repr_char(Head(s), q) \o repr_body(Tail(s), q)

\* repr(s) of a str of printable ASCII: single quotes, unless s holds a
\* single quote and no double quote
repr(s) ==
    LET q == IF contains(s, "'") /\ ~contains(s, "\"") THEN "\"" ELSE "'"
    IN  <<q>> \o repr_body(s, q) \o <<q>>

\* bool(x) of an Optional[str]
truthy(x) == x # {} /\ x # {<<>>}

\* the value of a str that is not None
the(x) == CHOOSE v \in x : TRUE

\* "extra == "
EXTRA_EQ == <<"e", "x", "t", "r", "a", " ", "=", "=", " ">>
\* ") and extra == "
AND_EXTRA_EQ == <<")", " ", "a", "n", "d", " ">> \o EXTRA_EQ

\* a variant that takes the whole bracket content as an extra name
open_section_plain(st, line) ==
    LET inner == SubSeq(line, 2, Len(line) - 1)
    IN  [st EXCEPT !.extras = @ \cup {inner},
                   !.current_markers = {EXTRA_EQ \o repr(inner)}]

\* the "[...]" branch of the loop
open_section(st, line) ==
    LET inner == SubSeq(line, 2, Len(line) - 1)
    IN  IF contains(inner, ":")
        THEN LET i == find(inner, ":")
                 extra == SubSeq(inner, 1, i - 1)
                 markers == SubSeq(inner, i + 1, Len(inner))
             IN  IF extra # <<>>
                 THEN [st EXCEPT !.extras = @ \cup {extra},
                                 !.current_markers =
                                     {<<"(">> \o markers \o AND_EXTRA_EQ \o repr(extra)}]
                 ELSE [st EXCEPT !.current_markers = {markers}]
        ELSE [st EXCEPT !.extras = @ \cup {inner},
                        !.current_markers = {EXTRA_EQ \o repr(inner)}]

\* one iteration of the loop over data.splitlines()
convert_line(st, raw) ==
    LET line == strip(raw)
    IN  IF line = <<>> THEN st
        ELSE IF Head(line) = "[" /\ line[Len(line)] = "]" THEN open_section(st, line)
        ELSE IF truthy(st.current_markers)
        THEN [st EXCEPT !.lst = Append(@, line \o <<";", " ">> \o the(st.current_markers))]
        ELSE [st EXCEPT !.lst = Append(@, line)]

RECURSIVE convert_loop(_, _)
convert_loop(st, lines) ==
    IF lines = <<>> THEN st ELSE convert_loop(convert_line(st, Head(lines)), Tail(lines))

\* returns [reqs |-> tuple(lst), extras |-> frozenset(extras)]
convert_sdist_requires(data) ==
    LET st == convert_loop([current_markers |-> {}, extras |-> {}, lst |-> <<>>],
                           splitlines(data))
    IN  [reqs |-> st.lst, extras |-> st.extras]

(***************************************************************************)
(* The converter as a state machine.                                       *)
(***************************************************************************)
\* blank lines, requirement lines, section headers with and without ":",
\* with empty parts, with surrounding whitespace, and lines that only
\* resemble headers
RequiresLines ==
    {<<>>,
     <<" ">>,
     <<"a">>,
     <<" ", "b", " ">>,
     <<"[", "e", "]">>,
     <<"[", "e", ":", "m", "]">>,
     <<"[", ":", "m", "]">>,
     <<"[", "]">>,
     <<"[", ":", "]">>,
     <<"[", "e", ":", "]">>,
     <<"[">>,
     <<"[", "e", "]", "x">>,
     <<"[", "e", ":", "m", ":", "n", "]">>,
     <<" ", "[", "f", "]", " ">>,
     <<"[", "m", " ", "\"", "3", "\"", "]">>}

\* the text of a file with the given lines
RECURSIVE text_of(_)
text_of(lines) ==
    IF lines = <<>> THEN <<>> ELSE Head(lines) \o <<"\n">> \o text_of(Tail(lines))

RequiresTexts(maxLines) == {text_of(ls) : ls \in SeqsUpTo(RequiresLines, maxLines)}

InitRequires ==
    /\ pc = "call"
    /\ call \in {[fn |-> "convert_sdist_requires", data |-> d] : d \in RequiresTexts(MaxLines)}
    /\ ret = <<>>
    /\ exc = NoException
    /\ files_read = <<>>

ConvertSdistRequires ==
    /\ pc = "call"
    /\ call.fn = "convert_sdist_requires"
    /\ ret' = convert_sdist_requires(call.data)
    /\ pc' = "done"
    /\ UNCHANGED <<call, exc, files_read>>

NextRequires == ConvertSdistRequires

SpecRequires == InitRequires /\ [][NextRequires]_vars

(***************************************************************************)
(* Properties of the converter.                                            *)
(***************************************************************************)
\* the non-blank lines of a text, each without its surrounding whitespace
StrippedLines(data) ==
    LET raw == split(data, "\n")
        stripped == [i \in 1..Len(raw) |-> strip(raw[i])]
    IN  SelectSeq(stripped, LAMBDA l : l # <<>>)

IsHeader(l) == Len(l) >= 2 /\ l[1] = "[" /\ l[Len(l)] = "]"
Bracketed(l) == SubSeq(l, 2, Len(l) - 1)
HasColon(x) == \E i \in 1..Len(x) : x[i] = ":"
FirstColon(x) == CHOOSE i \in 1..Len(x) : x[i] = ":" /\ \A j \in 1..(i - 1) : x[j] # ":"
ExtraPart(x) == SubSeq(x, 1, FirstColon(x) - 1)
MarkerAfterColon(x) == SubSeq(x, FirstColon(x) + 1, Len(x))
Quoted(x) == <<"'">> \o x \o <<"'">>

\* whether the header [x] registers an extra, and which
Registers(x) == ~HasColon(x) \/ ExtraPart(x) # <<>>
RegisteredBy(x) == IF HasColon(x) THEN ExtraPart(x) ELSE x

\* the marker the header [x] makes active
MarkerOfHeader(x) ==
    IF ~HasColon(x) THEN <<"e", "x", "t", "r", "a", " ", "=", "=", " ">> \o Quoted(x)
    ELSE IF ExtraPart(x) # <<>>
    THEN <<"(">> \o MarkerAfterColon(x)
             \o <<")", " ", "a", "n", "d", " ", "e", "x", "t", "r", "a", " ", "=", "=", " ">>
             \o Quoted(ExtraPart(x))
    ELSE MarkerAfterColon(x)

\* the marker in force at line i: that of the last header before it, "" if none
ActiveMarker(ls, i) ==
    LET hs == {h \in 1..(i - 1) : IsHeader(ls[h])}
    IN  IF hs = {} THEN <<>>
        ELSE MarkerOfHeader(Bracketed(ls[CHOOSE h \in hs : \A g \in hs : g <= h]))

\* the requirement a dependency line i yields
RequirementOf(ls, i) ==
    IF ActiveMarker(ls, i) # <<>> THEN ls[i] \o <<";", " ">> \o ActiveMarker(ls, i)
    ELSE ls[i]

\* the positions of the dependency lines, in order
RECURSIVE DependencyLines(_, _)
DependencyLines(ls, i) ==
    IF i > Len(ls) THEN <<>>
    ELSE IF IsHeader(ls[i]) THEN DependencyLines(ls, i + 1)
    ELSE <<i>> \o DependencyLines(ls, i + 1)

RequiresReturned == pc = "done" /\ call.fn = "convert_sdist_requires"

\* C3: convert_sdist_requires skips blank lines; a line [X] makes a marker
\* active for the lines that follow, up to the next header: extra == 'X'
\* for X without ":" (X registered), (M) and extra == 'E' for X = E:M with
\* E non-empty (E registered), M for X = :M (nothing registered); every
\* other line L (taken without surrounding whitespace) yields exactly one
\* requirement, "L; marker" under a non-empty active marker and L
\* otherwise; requirements are in source order and the extras are exactly
\* the registered names.
C3_ConvertSdistRequires ==
    RequiresReturned =>
        LET ls == StrippedLines(call.data)
            deps == DependencyLines(ls, 1)
        IN  /\ Len(ret.reqs) = Len(deps)
            /\ \A k \in 1..Len(deps) : ret.reqs[k] = RequirementOf(ls, deps[k])
            /\ ret.extras = {RegisteredBy(Bracketed(ls[h])) :
                                h \in {g \in 1..Len(ls) :
                                          IsHeader(ls[g]) /\ Registers(Bracketed(ls[g]))}}

\* a dependency before any header, then one under [e:m], as in
\* "a", "[e:m]", " b "
C3_Witness ==
    /\ RequiresReturned
    /\ ret.reqs = << <<"a">>,
                     <<"b", ";", " ", "(", "m", ")", " ", "a", "n", "d", " ",
                       "e", "x", "t", "r", "a", " ", "=", "=", " ", "'", "e", "'">> >>
    /\ ret.extras = {<<"e">>}

(***************************************************************************)
(* types.py: BasicMetadata and its fieldwise merge.                        *)
(***************************************************************************)
MaxActiveFields == 2   \* fields that differ from the default in a generated merge

\* the fields of the dataclass, in declaration order
FieldNames ==
    <<"reqs", "provides_extra", "name", "version", "requires_python", "url",
      "project_urls", "author", "author_email", "summary", "description",
      "keywords", "long_description_content_type">>

Fields == {FieldNames[i] : i \in 1..Len(FieldNames)}

\* the dict {}: a mapping is a function from keys to values
EmptyDict == [k \in {} |-> <<>>]

\* BasicMetadata(): every field at its default
EmptyMetadata ==
    [reqs |-> <<>>, provides_extra |-> {}, name |-> {}, version |-> {},
     requires_python |-> {}, url |-> {}, project_urls |-> EmptyDict, author |-> {},
     author_email |-> {}, summary |-> {}, description |-> {}, keywords |-> {},
     long_description_content_type |-> {}]

\* bool(v) of the value v of field k
field_truthy(k, v) ==
    IF k = "reqs" THEN Len(v) > 0
    ELSE IF k = "provides_extra" THEN v # {}
    ELSE IF k = "project_urls" THEN DOMAIN v # {}
    ELSE truthy(v)

\* what "if v" would be if it read "if v is not None" (and non-empty collections)
field_not_none(k, v) ==
    IF k = "reqs" THEN Len(v) > 0
    ELSE IF k = "provides_extra" THEN v # {}
    ELSE IF k = "project_urls" THEN DOMAIN v # {}
    ELSE v # {}

\* a variant that lets an empty str of other replace the field of self
or_not_none(self, other) ==
    [k \in Fields |-> IF field_not_none(k, other[k]) THEN other[k] ELSE self[k]]

\* BasicMetadata.__or__
__or__(self, other) ==
    [k \in Fields |-> IF field_truthy(k, other[k]) THEN other[k] ELSE self[k]]

(***************************************************************************)
(* The merge as a state machine.                                           *)
(***************************************************************************)
\* the values a field takes in self and in other: the default, for a str
\* the empty str, and a populated value that differs between the two
SelfValues(k) ==
    IF k = "reqs" THEN {<<>>, << <<"a">> >>}
    ELSE IF k = "provides_extra" THEN {{}, {<<"e">>}}
    ELSE IF k = "project_urls" THEN {EmptyDict, [u \in {<<"k">>} |-> <<"v">>]}
    ELSE {{}, {<<>>}, {<<"x">>}}

OtherValues(k) ==
    IF k = "reqs" THEN {<<>>, << <<"b">>, <<"c">> >>}
    ELSE IF k = "provides_extra" THEN {{}, {<<"f">>}}
    ELSE IF k = "project_urls" THEN {EmptyDict, [u \in {<<"k">>} |-> <<"w">>]}
    ELSE {{}, {<<>>}, {<<"y">>}}

\* the calls whose operands are at their default outside the fields ks
RECURSIVE MergeCallsOver(_, _)
MergeCallsOver(c, ks) ==
    IF ks = <<>> THEN {c}
    ELSE UNION {MergeCallsOver([c EXCEPT !.self[Head(ks)] = a, !.other[Head(ks)] = b],
                               Tail(ks)) :
                   a \in SelfValues(Head(ks)), b \in OtherValues(Head(ks))}

\* the calls whose operands differ from the default in the fields A only
MergeCalls(A) ==
    MergeCallsOver([fn |-> "__or__", self |-> EmptyMetadata, other |-> EmptyMetadata],
                   SelectSeq(FieldNames, LAMBDA k : k \in A))

InitMerge ==
    /\ pc = "call"
    /\ \E A \in {B \in SUBSET Fields : Cardinality(B) <= MaxActiveFields} :
           call \in MergeCalls(A)
    /\ ret = <<>>
    /\ exc = NoException
    /\ files_read = <<>>

Or ==
    /\ pc = "call"
    /\ call.fn = "__or__"
    /\ ret' = __or__(call.self, call.other)
    /\ pc' = "done"
    /\ UNCHANGED <<call, exc, files_read>>

NextMerge == Or

SpecMerge == InitMerge /\ [][NextMerge]_vars

(***************************************************************************)
(* Properties of the merge.                                                *)
(***************************************************************************)
\* a non-empty string or collection
Populated(k, v) ==
    CASE k = "reqs" -> v # <<>>
      [] k = "provides_extra" -> v # {}
      [] k = "project_urls" -> v # EmptyDict
      [] OTHER -> \E str_value \in v : str_value # <<>>

OrReturned == pc = "done" /\ call.fn = "__or__"

\* C6: base | overlay holds, field by field, the overlay's value where that
\* is a non-empty string or collection and the base's value elsewhere; a
\* field populated in the base is never replaced by an absent or empty
\* overlay value; requirements-only | name-only has both.
C6_FieldwiseMerge ==
    OrReturned =>
        /\ \A k \in Fields :
              /\ Populated(k, call.other[k]) => ret[k] = call.other[k]
              /\ ~Populated(k, call.other[k]) => ret[k] = call.self[k]
        /\ (/\ call.self = [EmptyMetadata EXCEPT !.reqs = call.self.reqs]
            /\ call.other = [EmptyMetadata EXCEPT !.name = call.other.name]
            /\ Populated("reqs", call.self.reqs)
            /\ Populated("name", call.other.name))
           => ret = [EmptyMetadata EXCEPT !.reqs = call.self.reqs,
                                          !.name = call.other.name]

\* a base with a name and a version merged with an overlay whose name is
\* the empty string and whose version is populated
C6_Witness ==
    /\ OrReturned
    /\ call.self.name = {<<"x">>} /\ call.other.name = {<<>>}
    /\ call.self.version = {<<"x">>} /\ call.other.version = {<<"y">>}
    /\ ret.name = {<<"x">>} /\ ret.version = {<<"y">>}

(***************************************************************************)
(* Character order, case and name canonicalization.                        *)
(***************************************************************************)
\* the printable ASCII characters in code order, from " " (32) to "~" (126),
\* the grave accent (96) left out
ASCII ==
    <<" ", "!", "\"", "#", "$", "%", "&", "'", "(", ")", "*", "+",
      ",", "-", ".", "/", "0", "1", "2", "3", "4", "5", "6", "7",
      "8", "9", ":", ";", "<", "=", ">", "?", "@", "A", "B", "C",
      "D", "E", "F", "G", "H", "I", "J", "K", "L", "M", "N", "O",
      "P", "Q", "R", "S", "T", "U", "V", "W", "X", "Y", "Z", "[",
      "\\", "]", "^", "_", "a", "b", "c", "d", "e", "f", "g",
      "h", "i", "j", "k", "l", "m", "n", "o", "p", "q", "r", "s",
      "t", "u", "v", "w", "x", "y", "z", "{", "|", "}", "~">>

\* the position of each character in ASCII
ASCII_index ==
    [c \in {ASCII[i] : i \in 1..Len(ASCII)} |->
        CHOOSE i \in 1..Len(ASCII) : ASCII[i] = c]

\* the rank of c by ord(c): its position in ASCII (control characters first)
ord(c) == IF c \in DOMAIN ASCII_index THEN ASCII_index[c] ELSE 0

\* a < b on str: lexicographic by code point
RECURSIVE str_lt(_, _)
str_lt(a, b) ==
    IF b = <<>> THEN FALSE
    ELSE IF a = <<>> THEN TRUE
    ELSE IF Head(a) = Head(b) THEN str_lt(Tail(a), Tail(b))
    ELSE ord(Head(a)) < ord(Head(b))

\* sorted(S) of a set of str
RECURSIVE sorted(_)
sorted(S) ==
    IF S = {} THEN <<>>
    ELSE LET least == CHOOSE x \in S : \A y \in S \ {x} : str_lt(x, y)
         IN  <<least>> \o sorted(S \ {least})

\* c.lower() of one character
lower_table ==
    [c \in DOMAIN ASCII_index |->
        IF ASCII_index[c] >= ASCII_index["A"] /\ ASCII_index[c] <= ASCII_index["Z"]
        THEN ASCII[ASCII_index[c] - ASCII_index["A"] + ASCII_index["a"]]
        ELSE c]

lower_char(c) == IF c \in DOMAIN lower_table THEN lower_table[c] ELSE c

\* s.lower()
lower(s) == [i \in 1..Len(s) |-> lower_char(s[i])]

\* re.sub(r"[-_.]+", "-", name): every run of "-", "_", "." becomes one "-"
RECURSIVE collapse_separators(_)
collapse_separators(name) ==
    IF name = <<>> THEN <<>>
    ELSE IF Head(name) \in {"-", "_", "."}
    THEN IF Len(name) > 1 /\ name[2] \in {"-", "_", "."}
         THEN collapse_separators(Tail(name))
         ELSE <<"-">> \o collapse_separators(Tail(name))
    ELSE <<Head(name)>> \o collapse_separators(Tail(name))

\* packaging.utils.canonicalize_name
canonicalize_name(name) == lower(collapse_separators(name))

(***************************************************************************)
(* Containers: a ZipFile or TarFile is its listing (names, in archive      *)
(* order) and the bytes of each entry (data).                              *)
(***************************************************************************)
\* all sequences of distinct elements of S of length at most n
DistinctSeqsUpTo(S, n) ==
    {q \in SeqsUpTo(S, n) : \A i, j \in 1..Len(q) : i # j => q[i] # q[j]}

\* zf.namelist(), tf.getnames()
namelist(zf) == zf.names

\* ZipFile.read(name), TarFile.extractfile(name).read(): the bytes of the
\* entry, and the entry logged as read; KeyError when there is no such entry
read(zf, name) ==
    IF name \in DOMAIN zf.data
    THEN [exc |-> NoException, value |-> zf.data[name], reads |-> <<name>>]
    ELSE [exc |-> [type |-> "KeyError"], value |-> <<>>, reads |-> <<>>]

(***************************************************************************)
(* wheel.py                                                                *)
(***************************************************************************)
MaxWheelEntries == 3   \* entries in one generated wheel

\* ".dist-info"
DIST_INFO == <<".", "d", "i", "s", "t", "-", "i", "n", "f", "o">>
\* "/METADATA"
SLASH_METADATA == <<"/", "M", "E", "T", "A", "D", "A", "T", "A">>

\* p.split("/", 1)[0]
first_segment(p) ==
    LET i == find(p, "/") IN IF i = 0 THEN p ELSE SubSeq(p, 1, i - 1)

InvalidWheel(message) == [type |-> "InvalidWheel", message |-> message]

_distinfo_dir(zf) ==
    LET subdirs == {first_segment(namelist(zf)[i]) : i \in 1..Len(namelist(zf))}
        info_dirs == {d \in subdirs : endswith(d, DIST_INFO)}
    IN  IF info_dirs = {}
        THEN [exc |-> InvalidWheel("Zero .dist-info dirs in wheel"), value |-> <<>>]
        ELSE IF Cardinality(info_dirs) > 1
        THEN [exc |-> [type |-> "InvalidWheel",
                       message |-> "n .dist-info dirs where there should be just one",
                       count |-> Cardinality(info_dirs),
                       candidates |-> sorted(info_dirs)],
              value |-> <<>>]
        ELSE Returned(CHOOSE d \in info_dirs : TRUE)

\* a variant without the project name check
from_wheel_unchecked(zf, project_name) ==
    LET d == _distinfo_dir(zf)
    IN  IF d.exc # NoException THEN [exc |-> d.exc, value |-> <<>>, reads |-> <<>>]
        ELSE read(zf, d.value \o SLASH_METADATA)

from_wheel(zf, project_name) ==
    LET d == _distinfo_dir(zf)
    IN  IF d.exc # NoException THEN [exc |-> d.exc, value |-> <<>>, reads |-> <<>>]
        ELSE IF ~startswith(canonicalize_name(d.value), canonicalize_name(project_name))
        THEN [exc |-> [type |-> "InvalidWheel", message |-> "Mismatched info_dir for project_name",
                       info_dir |-> d.value, project_name |-> project_name],
              value |-> <<>>, reads |-> <<>>]
        ELSE read(zf, d.value \o SLASH_METADATA)

(***************************************************************************)
(* The wheel extractor as a state machine.                                 *)
(***************************************************************************)
\* f.dist-info/METADATA, f.dist-info/RECORD, b.dist-info/METADATA, f/i.py,
\* F_.g.dist-info/METADATA, and a top-level file x.dist-info
WheelPaths ==
    {<<"f", ".", "d", "i", "s", "t", "-", "i", "n", "f", "o", "/",
       "M", "E", "T", "A", "D", "A", "T", "A">>,
     <<"f", ".", "d", "i", "s", "t", "-", "i", "n", "f", "o", "/",
       "R", "E", "C", "O", "R", "D">>,
     <<"b", ".", "d", "i", "s", "t", "-", "i", "n", "f", "o", "/",
       "M", "E", "T", "A", "D", "A", "T", "A">>,
     <<"f", "/", "i", ".", "p", "y">>,
     <<"F", "_", ".", "g", ".", "d", "i", "s", "t", "-", "i", "n", "f", "o", "/",
       "M", "E", "T", "A", "D", "A", "T", "A">>,
     <<"x", ".", "d", "i", "s", "t", "-", "i", "n", "f", "o">>}

\* f, b, f-g, F.G
ProjectNames == {<<"f">>, <<"b">>, <<"f", "-", "g">>, <<"F", ".", "G">>}

\* a wheel with the given listing; the bytes of an entry are "MD " and its name
Wheel(names) ==
    [names |-> names,
     data |-> [n \in {names[i] : i \in 1..Len(names)} |-> <<"M", "D", " ">> \o n]]

InitWheel ==
    /\ pc = "call"
    /\ \E names \in DistinctSeqsUpTo(WheelPaths, MaxWheelEntries), p \in ProjectNames :
           call \in [fn : {"from_wheel", "basic_metadata_from_wheel"},
                     zf : {Wheel(names)}, project_name : {p}]
    /\ ret = <<>>
    /\ exc = NoException
    /\ files_read = <<>>

\* the outcome r of a function that reads a container
FinishReading(r) ==
    /\ ret' = r.value
    /\ exc' = r.exc
    /\ files_read' = files_read \o r.reads
    /\ pc' = "done"

FromWheel ==
    /\ pc = "call"
    /\ call.fn = "from_wheel"
    /\ FinishReading(from_wheel(call.zf, call.project_name))
    /\ UNCHANGED call

(***************************************************************************)
(* Properties of the wheel extractor.                                      *)
(***************************************************************************)
\* the top-level path segments of the listing that end in ".dist-info"
TopSegment(p) ==
    IF \E i \in 1..Len(p) : p[i] = "/"
    THEN SubSeq(p, 1, (CHOOSE i \in 1..Len(p) :
                          p[i] = "/" /\ \A j \in 1..(i - 1) : p[j] # "/") - 1)
    ELSE p

DistInfoDirs(zf) ==
    {d \in {TopSegment(zf.names[i]) : i \in 1..Len(zf.names)} :
        /\ Len(d) >= 10
        /\ SubSeq(d, Len(d) - 9, Len(d)) = <<".", "d", "i", "s", "t", "-", "i", "n", "f", "o">>}

\* q lists exactly the elements of S, in ascending lexicographic order
IsSortedListOf(q, S) ==
    /\ {q[i] : i \in 1..Len(q)} = S
    /\ \A i \in 1..(Len(q) - 1) : str_lt(q[i], q[i + 1])

NameMatches(d, project) ==
    LET cd == canonicalize_name(d)
        cp == canonicalize_name(project)
    IN  Len(cp) <= Len(cd) /\ \A i \in 1..Len(cp) : cd[i] = cp[i]

MetadataEntry(d) == d \o <<"/", "M", "E", "T", "A", "D", "A", "T", "A">>

WheelReturned == pc = "done" /\ call.fn = "from_wheel"

\* the three InvalidWheel outcomes, decided in order, none of which reads
WheelErrors ==
    LET D == DistInfoDirs(call.zf)
    IN  /\ D = {} => /\ exc = [type |-> "InvalidWheel",
                               message |-> "Zero .dist-info dirs in wheel"]
                     /\ files_read = <<>>
        /\ Cardinality(D) > 1 =>
              /\ exc.type = "InvalidWheel"
              /\ exc.message = "n .dist-info dirs where there should be just one"
              /\ exc.count = Cardinality(D)
              /\ IsSortedListOf(exc.candidates, D)
              /\ files_read = <<>>
        /\ \A d \in D :
              (D = {d} /\ ~NameMatches(d, call.project_name)) =>
                  /\ exc.type = "InvalidWheel"
                  /\ exc.message = "Mismatched info_dir for project_name"
                  /\ exc.info_dir = d
                  /\ files_read = <<>>

\* C7 as stated: zero, several, mismatch, and otherwise the bytes of
\* <dir>/METADATA are returned, with that entry the only one read.
C7_ExactlyFourOutcomes ==
    WheelReturned =>
        /\ WheelErrors
        /\ \A d \in DistInfoDirs(call.zf) :
              (DistInfoDirs(call.zf) = {d} /\ NameMatches(d, call.project_name)) =>
                  /\ exc.type = "None"
                  /\ MetadataEntry(d) \in DOMAIN call.zf.data
                  /\ ret = call.zf.data[MetadataEntry(d)]
                  /\ files_read = <<MetadataEntry(d)>>

\* C7, amended: zero, several, mismatch, and otherwise the bytes of
\* <dir>/METADATA are returned with that entry the only one read, if the
\* container has that entry; if it has not, the container's KeyError is
\* raised and no entry is read.
C7_FromWheelOutcomes ==
    WheelReturned =>
        /\ WheelErrors
        /\ \A d \in DistInfoDirs(call.zf) :
              (DistInfoDirs(call.zf) = {d} /\ NameMatches(d, call.project_name)) =>
                  IF MetadataEntry(d) \in DOMAIN call.zf.data
                  THEN /\ exc.type = "None"
                       /\ ret = call.zf.data[MetadataEntry(d)]
                       /\ files_read = <<MetadataEntry(d)>>
                  ELSE /\ exc.type = "KeyError"
                       /\ files_read = <<>>

\* a wheel with one dist-info directory among other entries, read for a
\* project name that matches after canonicalization
C7_Witness ==
    /\ WheelReturned
    /\ exc.type = "None"
    /\ Len(call.zf.names) = 2
    /\ call.project_name = <<"F", ".", "G">>
    /\ Len(files_read) = 1
    /\ ret = <<"M", "D", " ">> \o files_read[1]

(***************************************************************************)
(* types.py: BasicMetadata.from_metadata.  email.message_from_string is    *)
(* computed as the feed parser computes it for a non-multipart message     *)
(* under the compat32 policy; "From " envelope lines are not modelled.     *)
(***************************************************************************)
\* the lines of s, each with its line ending kept
RECURSIVE lines_keepends(_)
lines_keepends(s) ==
    IF s = <<>> THEN <<>>
    ELSE LET i == find(s, "\n")
         IN  IF i = 0 THEN <<s>>
             ELSE <<SubSeq(s, 1, i)>> \o lines_keepends(SubSeq(s, i + 1, Len(s)))

\* headerRE.match(line): leading blank, or a ":" after printable characters only
headerRE_match(line) ==
    /\ line # <<>>
    /\ \/ line[1] \in {" ", "\t"}
       \/ /\ find(line, ":") > 0
          /\ \A j \in 1..(find(line, ":") - 1) : ord(line[j]) > ord(" ")

\* NLCRE.match(line): the line starts with a line ending
NLCRE_match(line) == line # <<>> /\ line[1] \in {"\n", "\r"}

\* the loop of _parsegen that collects the header lines: it stops at the
\* first line that is not one, which is consumed if blank and left for the
\* body if not
RECURSIVE collect_headers(_, _)
collect_headers(headers, input) ==
    IF input = <<>> THEN [headers |-> headers, input |-> <<>>]
    ELSE IF ~headerRE_match(Head(input))
    THEN IF ~NLCRE_match(Head(input))
         THEN [headers |-> headers, input |-> input]
         ELSE [headers |-> headers, input |-> Tail(input)]
    ELSE collect_headers(Append(headers, Head(input)), Tail(input))

\* s.lstrip(" \t")
lstrip_blank(s) ==
    LET RECURSIVE go(_)
        go(t) == IF t # <<>> /\ Head(t) \in {" ", "\t"} THEN go(Tail(t)) ELSE t
    IN  go(s)

\* s.rstrip("\r\n")
rstrip_eol(s) ==
    LET RECURSIVE go(_)
        go(t) == IF t # <<>> /\ t[Len(t)] \in {"\r", "\n"}
                 THEN go(SubSeq(t, 1, Len(t) - 1)) ELSE t
    IN  go(s)

\* Compat32.header_source_parse: the (name, value) of the source lines of
\* one header
header_source_parse(sourcelines) ==
    LET first == sourcelines[1]
        i == find(first, ":")
        value == lstrip_blank(SubSeq(first, i + 1, Len(first)))
                     \o join(<<>>, Tail(sourcelines))
    IN  [name |-> SubSeq(first, 1, i - 1), value |-> rstrip_eol(value)]

\* FeedParser._parse_headers: st holds the headers set so far and the source
\* lines (lastvalue) of the header being read
close_header(st) ==
    IF st.lastvalue # <<>>
    THEN [headers |-> Append(st.headers, header_source_parse(st.lastvalue)),
          lastvalue |-> <<>>]
    ELSE st

RECURSIVE _parse_headers(_, _)
_parse_headers(st, lines) ==
    IF lines = <<>> THEN close_header(st).headers
    ELSE LET line == Head(lines)
         IN  IF line[1] \in {" ", "\t"}
             THEN IF st.lastvalue = <<>>
                  THEN _parse_headers(st, Tail(lines))
                  ELSE _parse_headers([st EXCEPT !.lastvalue = Append(@, line)],
                                      Tail(lines))
             ELSE IF find(line, ":") = 1
             THEN _parse_headers(close_header(st), Tail(lines))
             ELSE _parse_headers([close_header(st) EXCEPT !.lastvalue = <<line>>],
                                 Tail(lines))

\* email.message_from_string
message_from_string(text) ==
    LET c == collect_headers(<<>>, lines_keepends(text))
    IN  [headers |-> _parse_headers([headers |-> <<>>, lastvalue |-> <<>>], c.headers),
         payload |-> join(<<>>, c.input)]

\* Message.get_all(name), without its "or None" for no match
RECURSIVE get_all(_, _)
get_all(headers, name) ==
    IF headers = <<>> THEN <<>>
    ELSE IF lower(Head(headers).name) = lower(name)
    THEN <<Head(headers).value>> \o get_all(Tail(headers), name)
    ELSE get_all(Tail(headers), name)

\* Message.get(name): the first header of that name, or None
get(msg, name) ==
    IF get_all(msg.headers, name) = <<>> THEN {}
    ELSE {get_all(msg.headers, name)[1]}

\* Message.get_payload()
get_payload(msg) == msg.payload

\* {k: v for k, _, v in map(lambda line: line.partition("="), lines)}
RECURSIVE dict_of_urls(_, _)
dict_of_urls(d, lines) ==
    IF lines = <<>> THEN d
    ELSE LET line == Head(lines)
             i == find(line, "=")
             k == IF i = 0 THEN line ELSE SubSeq(line, 1, i - 1)
             v == IF i = 0 THEN <<>> ELSE SubSeq(line, i + 1, Len(line))
         IN  dict_of_urls([x \in DOMAIN d \cup {k} |-> IF x = k THEN v ELSE d[x]],
                          Tail(lines))

\* the field names of the headers, as written in from_metadata
H_Requires_Dist == <<"R", "e", "q", "u", "i", "r", "e", "s", "-", "D", "i", "s", "t">>
H_Provides_Extra == <<"P", "r", "o", "v", "i", "d", "e", "s", "-", "E", "x", "t", "r", "a">>
H_Name == <<"N", "a", "m", "e">>
H_Version == <<"V", "e", "r", "s", "i", "o", "n">>
H_Requires_Python ==
    <<"R", "e", "q", "u", "i", "r", "e", "s", "-", "P", "y", "t", "h", "o", "n">>
H_Home_Page == <<"H", "o", "m", "e", "-", "P", "a", "g", "e">>
H_Project_URL == <<"P", "r", "o", "j", "e", "c", "t", "-", "U", "R", "L">>
H_Author == <<"A", "u", "t", "h", "o", "r">>
H_Author_Email == <<"A", "u", "t", "h", "o", "r", "-", "E", "m", "a", "i", "l">>
H_Summary == <<"S", "u", "m", "m", "a", "r", "y">>
H_Description == <<"D", "e", "s", "c", "r", "i", "p", "t", "i", "o", "n">>
H_Keywords == <<"K", "e", "y", "w", "o", "r", "d", "s">>
H_Description_Content_Type ==
    <<"D", "e", "s", "c", "r", "i", "p", "t", "i", "o", "n", "-",
      "C", "o", "n", "t", "e", "n", "t", "-", "T", "y", "p", "e">>

\* BasicMetadata.from_metadata
from_metadata(metadata) ==
    LET msg == message_from_string(metadata)
        seq_set(q) == {q[i] : i \in 1..Len(q)}
    IN  [reqs |-> get_all(msg.headers, H_Requires_Dist),
         provides_extra |-> seq_set(get_all(msg.headers, H_Provides_Extra)),
         name |-> get(msg, H_Name),
         version |-> get(msg, H_Version),
         requires_python |-> get(msg, H_Requires_Python),
         url |-> get(msg, H_Home_Page),
         project_urls |-> dict_of_urls(EmptyDict, get_all(msg.headers, H_Project_URL)),
         author |-> get(msg, H_Author),
         author_email |-> get(msg, H_Author_Email),
         summary |-> get(msg, H_Summary),
         description |-> IF truthy(get(msg, H_Description)) THEN get(msg, H_Description)
                         ELSE IF get_payload(msg) # <<>> THEN {get_payload(msg)}
                         ELSE {},
         keywords |-> get(msg, H_Keywords),
         long_description_content_type |-> get(msg, H_Description_Content_Type)]

\* a variant that lets the requires.txt record override the PKG-INFO record
from_sdist_requires_over_pkg_info(pkg_info, requires) ==
    LET pkg_info_metadata == from_metadata(pkg_info)
        r == convert_sdist_requires(requires)
        sdist_metadata == [EmptyMetadata EXCEPT !.reqs = r.reqs,
                                                !.provides_extra = r.extras]
    IN  __or__(pkg_info_metadata, sdist_metadata)

\* BasicMetadata.from_sdist_pkg_info_and_requires
from_sdist_pkg_info_and_requires(pkg_info, requires) ==
    LET pkg_info_metadata == from_metadata(pkg_info)
        r == convert_sdist_requires(requires)
        sdist_metadata == [EmptyMetadata EXCEPT !.reqs = r.reqs,
                                                !.provides_extra = r.extras]
    IN  __or__(sdist_metadata, pkg_info_metadata)

(***************************************************************************)
(* wheel.py: basic_metadata_from_wheel, and the wheel functions as a state *)
(* machine.                                                                *)
(***************************************************************************)
basic_metadata_from_wheel(zf, project_name) ==
    LET metadata == from_wheel(zf, project_name)
    IN  IF metadata.exc # NoException THEN metadata
        ELSE [metadata EXCEPT !.value = from_metadata(@)]

BasicMetadataFromWheel ==
    /\ pc = "call"
    /\ call.fn = "basic_metadata_from_wheel"
    /\ FinishReading(basic_metadata_from_wheel(call.zf, call.project_name))
    /\ UNCHANGED call

NextWheel == FromWheel \/ BasicMetadataFromWheel

SpecWheel == InitWheel /\ [][NextWheel]_vars

(***************************************************************************)
(* sdist.py                                                                *)
(***************************************************************************)
MaxSdistEntries == 3   \* entries in one generated sdist

SLASH_REQUIRES_TXT == <<"/", "r", "e", "q", "u", "i", "r", "e", "s", ".", "t", "x", "t">>
PKG_INFO == <<"P", "K", "G", "-", "I", "N", "F", "O">>
SLASH_PKG_INFO == <<"/", "P", "K", "G", "-", "I", "N", "F", "O">>
REQUIRES_DIST_PREFIX == <<"R", "e", "q", "u", "i", "r", "e", "s", "-", "D", "i", "s", "t", ":", " ">>
PROVIDES_EXTRA_PREFIX == <<"P", "r", "o", "v", "i", "d", "e", "s", "-", "E", "x", "t", "r", "a", ":", " ">>

\* [f for f in names if f.endswith("/requires.txt")]
requires_candidates(names) ==
    SelectSeq(names, LAMBDA f : endswith(f, SLASH_REQUIRES_TXT))

\* (f for f in names if f == "PKG-INFO" or f.endswith("/PKG-INFO"))
pkg_info_candidates(names) ==
    SelectSeq(names, LAMBDA f : f = PKG_INFO \/ endswith(f, SLASH_PKG_INFO))

\* a variant of the sort that puts the later of two equally long paths first
RECURSIVE sort_by_len_ties_reversed(_)
sort_by_len_ties_reversed(q) ==
    IF q = <<>> THEN <<>>
    ELSE LET rest == sort_by_len_ties_reversed(SubSeq(q, 1, Len(q) - 1))
             x == q[Len(q)]
             before == SelectSeq(rest, LAMBDA y : Len(y) < Len(x))
             after == SelectSeq(rest, LAMBDA y : Len(y) >= Len(x))
         IN  before \o <<x>> \o after

\* list.sort(key=len), sorted(..., key=len): a stable sort, so each element
\* goes after the elements before it that are not longer
RECURSIVE sort_by_len(_)
sort_by_len(q) ==
    IF q = <<>> THEN <<>>
    ELSE LET rest == sort_by_len(SubSeq(q, 1, Len(q) - 1))
             x == q[Len(q)]
             before == SelectSeq(rest, LAMBDA y : Len(y) <= Len(x))
             after == SelectSeq(rest, LAMBDA y : Len(y) > Len(x))
         IN  before \o <<x>> \o after

\* TarFile.getnames()
getnames(tf) == tf.names

\* TarFile.extractfile(name).read()
extractfile_read(tf, name) == read(tf, name)

\* a variant that leaves out the Provides-Extra lines
emulated_metadata_without_extras(data) ==
    LET r == convert_sdist_requires(data)
    IN  join(<<>>, [i \in 1..Len(r.reqs) |-> REQUIRES_DIST_PREFIX \o r.reqs[i] \o <<"\n">>])

\* the "Requires-Dist:" lines of the requirements and then the
\* "Provides-Extra:" lines of the sorted extras, joined
emulated_metadata(data) ==
    LET r == convert_sdist_requires(data)
        extras == sorted(r.extras)
    IN  join(<<>>, [i \in 1..Len(r.reqs) |-> REQUIRES_DIST_PREFIX \o r.reqs[i] \o <<"\n">>]
                   \o [i \in 1..Len(extras) |->
                          PROVIDES_EXTRA_PREFIX \o extras[i] \o <<"\n">>])

from_zip_sdist(zf) ==
    LET requires == sort_by_len(requires_candidates(namelist(zf)))
    IN  IF requires = <<>>
        THEN [exc |-> NoException, value |-> <<>>, reads |-> <<>>]
        ELSE LET data == read(zf, requires[1])
             IN  [exc |-> NoException, value |-> emulated_metadata(data.value),
                  reads |-> data.reads]

basic_metadata_from_zip_sdist(zf) ==
    LET requires == sort_by_len(requires_candidates(namelist(zf)))
        requires_data == IF requires # <<>> THEN read(zf, requires[1])
                         ELSE [exc |-> NoException, value |-> <<>>, reads |-> <<>>]
        pkg_info == sort_by_len(pkg_info_candidates(namelist(zf)))
    IN  IF pkg_info = <<>>
        THEN [exc |-> [type |-> "IndexError"], value |-> <<>>,
              reads |-> requires_data.reads]
        ELSE LET pkg_info_data == read(zf, pkg_info[1])
             IN  [exc |-> NoException,
                  value |-> from_sdist_pkg_info_and_requires(pkg_info_data.value,
                                                             requires_data.value),
                  reads |-> requires_data.reads \o pkg_info_data.reads]

\* a variant that emits the extras in descending order
from_tar_sdist_descending_extras(tf) ==
    LET requires == sort_by_len(requires_candidates(getnames(tf)))
    IN  IF requires = <<>>
        THEN [exc |-> NoException, value |-> <<>>, reads |-> <<>>]
        ELSE LET fo == extractfile_read(tf, requires[1])
                 r == convert_sdist_requires(fo.value)
                 extras == sorted(r.extras)
                 n == Len(extras)
             IN  [exc |-> NoException,
                  value |-> join(<<>>,
                      [i \in 1..Len(r.reqs) |->
                          REQUIRES_DIST_PREFIX \o r.reqs[i] \o <<"\n">>]
                      \o [i \in 1..n |->
                          PROVIDES_EXTRA_PREFIX \o extras[n + 1 - i] \o <<"\n">>]),
                  reads |-> fo.reads]

from_tar_sdist(tf) ==
    LET requires == sort_by_len(requires_candidates(getnames(tf)))
    IN  IF requires = <<>>
        THEN [exc |-> NoException, value |-> <<>>, reads |-> <<>>]
        ELSE LET fo == extractfile_read(tf, requires[1])
             IN  [exc |-> NoException, value |-> emulated_metadata(fo.value),
                  reads |-> fo.reads]

basic_metadata_from_tar_sdist(tf) ==
    LET requires == sort_by_len(requires_candidates(getnames(tf)))
        requires_data == IF requires # <<>> THEN extractfile_read(tf, requires[1])
                         ELSE [exc |-> NoException, value |-> <<>>, reads |-> <<>>]
        pkg_info == sort_by_len(pkg_info_candidates(getnames(tf)))
    IN  IF pkg_info = <<>>
        THEN [exc |-> [type |-> "IndexError"], value |-> <<>>,
              reads |-> requires_data.reads]
        ELSE LET pkg_info_fo == extractfile_read(tf, pkg_info[1])
             IN  [exc |-> NoException,
                  value |-> from_sdist_pkg_info_and_requires(pkg_info_fo.value,
                                                             requires_data.value),
                  reads |-> requires_data.reads \o pkg_info_fo.reads]

(***************************************************************************)
(* The sdist extractors as a state machine.                                *)
(***************************************************************************)
\* PKG-INFO, f/PKG-INFO, g/PKG-INFO, f/requires.txt, g/requires.txt, f/t/requires.txt, requires.txt
SdistPaths ==
    {<<"P", "K", "G", "-", "I", "N", "F", "O">>,
     <<"f", "/", "P", "K", "G", "-", "I", "N", "F", "O">>,
     <<"g", "/", "P", "K", "G", "-", "I", "N", "F", "O">>,
     <<"f", "/", "r", "e", "q", "u", "i", "r", "e", "s", ".", "t", "x", "t">>,
     <<"g", "/", "r", "e", "q", "u", "i", "r", "e", "s", ".", "t", "x", "t">>,
     <<"f", "/", "t", "/", "r", "e", "q", "u", "i", "r", "e", "s", ".", "t", "x", "t">>,
     <<"r", "e", "q", "u", "i", "r", "e", "s", ".", "t", "x", "t">>}

\* the PKG-INFO contents an entry can have
PkgInfoTexts ==
    <<<<"N", "a", "m", "e", ":", " ", "n", "\n", "P", "r", "o", "j", "e",
        "c", "t", "-", "U", "R", "L", ":", " ", "a", "=", "b", "\n">>,
      <<"R", "e", "q", "u", "i", "r", "e", "s", "-", "D", "i", "s", "t", ":",
        " ", "r", "\n", "P", "r", "o", "v", "i", "d", "e", "s", "-", "E",
        "x", "t", "r", "a", ":", " ", "x", "\n">>,
      <<"P", "r", "o", "v", "i", "d", "e", "s", "-", "E", "x", "t", "r", "a",
        ":", " ", "x", "\n">>,
      <<>>,
      <<"n", "a", "m", "e", ":", " ", "n", "\n", "R", "e", "q", "u", "i",
        "r", "e", "s", "-", "D", "i", "s", "t", ":", " ", "r", "\n", "R",
        "e", "q", "u", "i", "r", "e", "s", "-", "D", "i", "s", "t", ":", " ",
        "s", "\n", "\n", "b", "o", "d", "y", "\n">>,
      <<"N", "a", "m", "e", ":", "\n", "S", "u", "m", "m", "a", "r", "y",
        ":", " ", "s", "\n", " ", "t", "\n", ":", "x", "\n", "b", "o", "d",
        "y", "\n">>>>

\* the requires.txt contents an entry can have
RequiresTxtTexts ==
    <<<<"a", "\n", "[", "e", "]", "\n", "b", "\n">>,
      <<>>,
      <<"c", "\n", "[", "e", "]", "\n", "[", "D", "]", "\n", "d", "\n">>>>

\* an sdist with the given listing; the entry at position i holds the text
\* number i + shift (cyclically) of the texts of its kind, so that two
\* entries of one listing differ in content
Sdist(names, shift) ==
    [names |-> names,
     data |-> [n \in {names[i] : i \in 1..Len(names)} |->
                  LET i == CHOOSE j \in 1..Len(names) : names[j] = n
                  IN  IF n = PKG_INFO \/ endswith(n, SLASH_PKG_INFO)
                      THEN PkgInfoTexts[((i + shift) % Len(PkgInfoTexts)) + 1]
                      ELSE RequiresTxtTexts[((i + shift) % Len(RequiresTxtTexts)) + 1]]]

Sdists(maxEntries) ==
    {Sdist(names, shift) : names \in DistinctSeqsUpTo(SdistPaths, maxEntries),
                           shift \in 0..(Len(PkgInfoTexts) - 1)}

InitSdist ==
    /\ pc = "call"
    /\ \E a \in Sdists(MaxSdistEntries) :
           call \in {[fn |-> "from_zip_sdist", zf |-> a],
                     [fn |-> "basic_metadata_from_zip_sdist", zf |-> a],
                     [fn |-> "from_tar_sdist", tf |-> a],
                     [fn |-> "basic_metadata_from_tar_sdist", tf |-> a]}
    /\ ret = <<>>
    /\ exc = NoException
    /\ files_read = <<>>

FromZipSdist ==
    /\ pc = "call"
    /\ call.fn = "from_zip_sdist"
    /\ FinishReading(from_zip_sdist(call.zf))
    /\ UNCHANGED call

BasicMetadataFromZipSdist ==
    /\ pc = "call"
    /\ call.fn = "basic_metadata_from_zip_sdist"
    /\ FinishReading(basic_metadata_from_zip_sdist(call.zf))
    /\ UNCHANGED call

FromTarSdist ==
    /\ pc = "call"
    /\ call.fn = "from_tar_sdist"
    /\ FinishReading(from_tar_sdist(call.tf))
    /\ UNCHANGED call

BasicMetadataFromTarSdist ==
    /\ pc = "call"
    /\ call.fn = "basic_metadata_from_tar_sdist"
    /\ FinishReading(basic_metadata_from_tar_sdist(call.tf))
    /\ UNCHANGED call

NextSdist ==
    \/ FromZipSdist
    \/ BasicMetadataFromZipSdist
    \/ FromTarSdist
    \/ BasicMetadataFromTarSdist

SpecSdist == InitSdist /\ [][NextSdist]_vars

(***************************************************************************)
(* Properties of the sdist extractors.                                     *)
(***************************************************************************)
SdistFns == {"from_zip_sdist", "basic_metadata_from_zip_sdist",
             "from_tar_sdist", "basic_metadata_from_tar_sdist"}
BasicMetadataFns == {"basic_metadata_from_zip_sdist", "basic_metadata_from_tar_sdist"}

SdistReturned == pc = "done" /\ call.fn \in SdistFns
BasicMetadataReturned == pc = "done" /\ call.fn \in BasicMetadataFns

\* the container of the call
Archive ==
    IF call.fn \in {"from_zip_sdist", "basic_metadata_from_zip_sdist"}
    THEN call.zf ELSE call.tf

HasSuffix(f, suffix) ==
    /\ Len(f) >= Len(suffix)
    /\ \A i \in 1..Len(suffix) : f[Len(f) - Len(suffix) + i] = suffix[i]

IsRequiresTxt(f) == HasSuffix(f, <<"/", "r", "e", "q", "u", "i", "r", "e", "s", ".", "t", "x", "t">>)
IsPkgInfo(f) == f = <<"P", "K", "G", "-", "I", "N", "F", "O">> \/ HasSuffix(f, <<"/", "P", "K", "G", "-", "I", "N", "F", "O">>)

\* the positions in the listing of the requires.txt and PKG-INFO candidates
RequiresTxtAt == {i \in 1..Len(Archive.names) : IsRequiresTxt(Archive.names[i])}
PkgInfoAt == {i \in 1..Len(Archive.names) : IsPkgInfo(Archive.names[i])}

\* of the candidates at the positions I, those of minimal path length and,
\* among these, first in the listing: one position, or none if I is empty
Shortest(I) ==
    {i \in I : \A j \in I :
        \/ Len(Archive.names[i]) < Len(Archive.names[j])
        \/ Len(Archive.names[i]) = Len(Archive.names[j]) /\ i <= j}

EntriesRead == {files_read[k] : k \in 1..Len(files_read)}

\* C8: in an sdist without any PKG-INFO entry the basic_metadata functions
\* do not fail: they return a record whose descriptive fields are absent and
\* whose requirements and extras are those of the requires.txt content.
C8_NoPkgInfoDoesNotFail ==
    (BasicMetadataReturned /\ PkgInfoAt = {}) =>
        /\ exc.type = "None"
        /\ LET data == IF RequiresTxtAt = {} THEN <<>>
                       ELSE Archive.data[Archive.names[CHOOSE i \in Shortest(RequiresTxtAt) : TRUE]]
               r == convert_sdist_requires(data)
           IN  ret = [EmptyMetadata EXCEPT !.reqs = r.reqs, !.provides_extra = r.extras]

\* what happens instead: IndexError, after the requires.txt entry was read
C8_IndexError ==
    (BasicMetadataReturned /\ PkgInfoAt = {}) =>
        /\ exc.type = "IndexError"
        /\ files_read = [k \in 1..Cardinality(Shortest(RequiresTxtAt)) |->
                            Archive.names[CHOOSE i \in Shortest(RequiresTxtAt) : TRUE]]

\* C9: in every sdist function the requires.txt entry that is read is the
\* candidate of minimal path length that comes first in the listing, and so
\* is the PKG-INFO entry that is read; no other candidate is read.
C9_ShortestFirstListed ==
    SdistReturned =>
        /\ \A i \in RequiresTxtAt :
              Archive.names[i] \in EntriesRead <=> i \in Shortest(RequiresTxtAt)
        /\ \A i \in PkgInfoAt :
              Archive.names[i] \in EntriesRead =>  i \in Shortest(PkgInfoAt)
        /\ \A i \in Shortest(PkgInfoAt) :
              call.fn \in BasicMetadataFns => Archive.names[i] \in EntriesRead

\* a longer candidate listed first, then two of equal minimal length: the
\* first of the two is the one read
C9_Witness ==
    /\ SdistReturned
    /\ \E k, i, j \in RequiresTxtAt :
          /\ k < i /\ i < j
          /\ Len(Archive.names[i]) = Len(Archive.names[j])
          /\ Len(Archive.names[i]) < Len(Archive.names[k])
          /\ files_read = <<Archive.names[i]>>
          /\ ret # <<>>

\* the PKG-INFO-parsed record and the requires.txt-derived record of the call
PkgInfoRecord ==
    from_metadata(Archive.data[Archive.names[CHOOSE i \in Shortest(PkgInfoAt) : TRUE]])

RequiresTxtRecord ==
    LET r == convert_sdist_requires(
                 IF RequiresTxtAt = {} THEN <<>>
                 ELSE Archive.data[Archive.names[CHOOSE i \in Shortest(RequiresTxtAt) : TRUE]])
    IN  [EmptyMetadata EXCEPT !.reqs = r.reqs, !.provides_extra = r.extras]

\* every field populated in PKG-INFO comes from PKG-INFO; the others are
\* absent, but requirements and extras, which come from requires.txt
PkgInfoOverlay ==
    /\ exc.type = "None"
    /\ \A p \in {PkgInfoRecord}, r \in {RequiresTxtRecord} :
          \A k \in Fields : ret[k] = IF Populated(k, p[k]) THEN p[k] ELSE r[k]

\* C10 as stated: the overlay, and with no requires.txt and no Requires-Dist
\* in PKG-INFO the requirements are empty and the extras set is empty.
C10_EmptyWithoutRequiresDist ==
    (BasicMetadataReturned /\ PkgInfoAt # {}) =>
        /\ PkgInfoOverlay
        /\ (RequiresTxtAt = {} /\ PkgInfoRecord.reqs = <<>>) =>
              /\ ret.reqs = <<>>
              /\ ret.provides_extra = {}

\* C10, amended: the overlay, and with no requires.txt the requirements are
\* empty if PKG-INFO has no Requires-Dist and the extras set is empty if
\* PKG-INFO has no Provides-Extra.
C10_SdistMerge ==
    (BasicMetadataReturned /\ PkgInfoAt # {}) =>
        /\ PkgInfoOverlay
        /\ (RequiresTxtAt = {} /\ PkgInfoRecord.reqs = <<>>) => ret.reqs = <<>>
        /\ (RequiresTxtAt = {} /\ PkgInfoRecord.provides_extra = {}) =>
              ret.provides_extra = {}

\* PKG-INFO with Requires-Dist and a name but no Provides-Extra, beside a
\* requires.txt with requirements and an extra: the requirements are those
\* of PKG-INFO, the extras those of requires.txt
C10_Witness ==
    /\ BasicMetadataReturned
    /\ exc.type = "None"
    /\ Len(files_read) = 2
    /\ ret.reqs = <<<<"r">>, <<"s">>>>
    /\ ret.provides_extra = {<<"e">>}
    /\ ret.name = {<<"n">>}
    /\ RequiresTxtRecord.reqs # <<>>

\* the header line "key: value\n"
HeaderLine(key, value) == key \o <<":", " ">> \o value \o <<"\n">>

\* the concatenation of the header lines "key: value\n" of the values
RECURSIVE HeaderLines(_, _)
HeaderLines(key, values) ==
    IF values = <<>> THEN <<>>
    ELSE HeaderLine(key, Head(values)) \o HeaderLines(key, Tail(values))

\* the content of the requires.txt entry that is selected
RequiresTxtContent ==
    Archive.data[Archive.names[CHOOSE i \in Shortest(RequiresTxtAt) : TRUE]]

EmulatedReturned == pc = "done" /\ call.fn \in {"from_zip_sdist", "from_tar_sdist"}

\* C11: from_zip_sdist and from_tar_sdist return the same bytes for the same
\* listing and content: a Requires-Dist line per converted requirement in
\* source order, then a Provides-Extra line per extra in sorted order; with
\* no requires.txt entry, empty bytes and no entry read.
C11_EmulatedMetadata ==
    EmulatedReturned =>
        /\ exc.type = "None"
        /\ IF RequiresTxtAt = {}
           THEN ret = <<>> /\ files_read = <<>>
           ELSE \A r \in {convert_sdist_requires(RequiresTxtContent)} :
                  \E q \in DistinctSeqsUpTo(r.extras, Cardinality(r.extras)) :
                      /\ IsSortedListOf(q, r.extras)
                      /\ ret = HeaderLines(<<"R", "e", "q", "u", "i", "r", "e", "s", "-",
                                             "D", "i", "s", "t">>, r.reqs)
                               \o HeaderLines(<<"P", "r", "o", "v", "i", "d", "e", "s", "-",
                                                "E", "x", "t", "r", "a">>, q)

\* from_tar_sdist on a requires.txt with two requirements and the extras e
\* and D, declared in that order and emitted as D, e
C11_Witness ==
    /\ pc = "done"
    /\ call.fn = "from_tar_sdist"
    /\ Len(files_read) = 1
    /\ convert_sdist_requires(RequiresTxtContent).extras = {<<"e">>, <<"D">>}
    /\ Len(convert_sdist_requires(RequiresTxtContent).reqs) = 2
    /\ endswith(ret, <<"x", "t", "r", "a", ":", " ", "D", "\n",
                       "P", "r", "o", "v", "i", "d", "e", "s", "-", "E", "x", "t", "r", "a",
                       ":", " ", "e", "\n">>)

(***************************************************************************)
(* source_checkout.py: the producers.  A checkout (path) is a function     *)
(* from the names of the files it has to their parsed contents: the TOML   *)
(* document of pyproject.toml, the sections of setup.cfg, the syntax tree  *)
(* of setup.py.  A table with fixed keys is a function on its keys; a      *)
(* table whose keys are names chosen by the author (dependencies, extras,  *)
(* urls) is the sequence of its items [k, v] in declaration order.         *)
(***************************************************************************)
\* d.get(k, default)
get_or(d, k, default) == IF k \in DOMAIN d THEN d[k] ELSE default

\* d.get(k): None when absent
get_opt(d, k) == IF k \in DOMAIN d THEN {d[k]} ELSE {}

\* (path / name).read_text(): the content, or FileNotFoundError
read_text(path, name) ==
    IF name \in DOMAIN path
    THEN [exc |-> NoException, value |-> path[name], reads |-> <<name>>]
    ELSE [exc |-> [type |-> "FileNotFoundError"], value |-> <<>>, reads |-> <<>>]

\* "".join(buf)
concat(buf) == join(<<>>, buf)

\* f"{key}: {value}\n"
header(key, value) == key \o <<":", " ">> \o value \o <<"\n">>

\* repr of a list of str
repr_list(q) ==
    <<"[">> \o join(<<",", " ">>, [i \in 1..Len(q) |-> repr(q[i])]) \o <<"]">>

\* f"{x}" of an Optional[str]
format_opt(x) == IF x = {} THEN <<"N", "o", "n", "e">> ELSE the(x)

H_Project_URL_eq(k, v) == header(H_Project_URL, k \o <<"=">> \o v)

\* the lines of one extra: Provides-Extra, then its requirements, gated
extra_lines(k, deps) ==
    LET extra_name == canonicalize_name(k)
    IN  <<header(H_Provides_Extra, extra_name)>>
        \o [i \in 1..Len(deps) |->
               header(H_Requires_Dist, merge_extra_marker(extra_name, deps[i]))]

\* the loop over the items of an extras table
RECURSIVE extras_lines(_)
extras_lines(items) ==
    IF items = <<>> THEN <<>>
    ELSE extra_lines(Head(items).k, Head(items).v) \o extras_lines(Tail(items))

\* the lines of the authors loop of from_pep621_checkout
RECURSIVE author_lines(_)
author_lines(authors) ==
    IF authors = <<>> THEN <<>>
    ELSE <<header(H_Author, format_opt(get_opt(Head(authors), "name"))),
           header(H_Author_Email, format_opt(get_opt(Head(authors), "email")))>>
         \o author_lines(Tail(authors))

\* "if value: buf.append(line)"
if_truthy(x, lines) == IF truthy(x) THEN lines ELSE <<>>

from_pep621_checkout(path) ==
    LET data == read_text(path, "pyproject.toml")
        doc == data.value
        project == get_or(doc, "project", EmptyDict)
        deps == get_or(project, "dependencies", <<>>)
        name == get_opt(project, "name")
        version == get_opt(project, "version")
        requires_python == get_opt(project, "requires-python")
        urls == get_opt(project, "urls")
        authors == get_opt(project, "authors")
        summary == get_opt(project, "description")
        description == get_opt(project, "readme")
        keywords == get_opt(project, "keywords")
    IN  IF data.exc # NoException
        THEN [exc |-> NoException, value |-> <<>>, reads |-> <<>>]
        ELSE [exc |-> NoException,
              reads |-> data.reads,
              value |-> concat(
                  [i \in 1..Len(deps) |-> header(H_Requires_Dist, deps[i])]
                  \o extras_lines(get_or(project, "optional-dependencies", <<>>))
                  \o if_truthy(name, <<header(H_Name, the(name))>>)
                  \o if_truthy(version, <<header(H_Version, the(version))>>)
                  \o if_truthy(requires_python,
                               <<header(H_Requires_Python, the(requires_python))>>)
                  \o if_truthy(urls, [i \in 1..Len(the(urls)) |->
                                         H_Project_URL_eq(the(urls)[i].k, the(urls)[i].v)])
                  \o if_truthy(authors, author_lines(the(authors)))
                  \o if_truthy(summary, <<header(H_Summary, the(summary))>>)
                  \o if_truthy(description, <<header(H_Description, the(description))>>)
                  \o if_truthy(keywords, <<header(H_Keywords, repr_list(the(keywords)))>>))]

\* OPERATOR_RE.fullmatch(s) for r"([<>=~]+)(\d.*)": None, or the two groups
OPERATOR_RE_fullmatch(s) ==
    LET ops == {n \in 1..Len(s) : \A i \in 1..n : s[i] \in {"<", ">", "=", "~"}}
        n == IF ops = {} THEN 0 ELSE CHOOSE k \in ops : \A j \in ops : j <= k
    IN  IF /\ n > 0
           /\ n < Len(s)
           /\ s[n + 1] \in Digits
           /\ \A i \in (n + 1)..Len(s) : s[i] # "\n"
        THEN {[group1 |-> SubSeq(s, 1, n), group2 |-> SubSeq(s, n + 1, Len(s))]}
        ELSE {}

\* f"python_version {m.group(1)} '{m.group(2)}'"
python_version_marker(m) ==
    <<"p", "y", "t", "h", "o", "n", "_", "v", "e", "r", "s", "i", "o", "n", " ">> \o m.group1 \o <<" ", "'">> \o m.group2 \o <<"'">>

\* the translation of a Poetry version constraint, before the "==" prefix
translate_version(version) ==
    IF startswith(version, <<"^">>) THEN _translate_caret(version)
    ELSE IF startswith(version, <<"~">>) THEN _translate_tilde(version)
    ELSE IF version = <<"*">> THEN Returned(<<>>)
    ELSE Returned(version)

\* if version[:1].isdigit(): version = "==" + version
pin_version(version) ==
    IF version # <<>> /\ version[1] \in Digits THEN <<"=", "=">> \o version ELSE version

\* one round of the loop over tool.poetry.dependencies; st holds buf, the
\* saved_extra_constraints and the exception raised, if any
poetry_dependency(st, key, v) ==
    LET k == canonicalize_name(key)
        is_dict == "dict" \in DOMAIN v
        version == IF is_dict THEN get_or(v.dict, "version", <<>>) ELSE v.str
        extras == IF is_dict /\ "extras" \in DOMAIN v.dict
                  THEN <<"[">> \o join(<<",">>, v.dict["extras"]) \o <<"]">>
                  ELSE <<>>
        python == IF is_dict THEN get_or(v.dict, "python", <<>>) ELSE <<>>
        m == OPERATOR_RE_fullmatch(python)
        combined == IF is_dict
                    THEN combine_markers(<<get_or(v.dict, "markers", <<>>),
                                           IF python # <<>> THEN python_version_marker(the(m))
                                           ELSE <<>>>>)
                    ELSE <<>>
        markers == IF combined # <<>> THEN <<" ", ";", " ">> \o combined ELSE <<>>
        optional == IF is_dict THEN get_or(v.dict, "optional", FALSE) ELSE FALSE
        translated == translate_version(version)
    IN  IF st.exc # NoException \/ key = <<"p", "y", "t", "h", "o", "n">> THEN st
        ELSE IF python # <<>> /\ m = {}
        THEN [st EXCEPT !.exc = [type |-> "AssertionError"]]
        ELSE IF version = <<>> THEN st
        ELSE IF translated.exc # NoException THEN [st EXCEPT !.exc = translated.exc]
        ELSE IF optional
        THEN [st EXCEPT !.saved =
                 [x \in DOMAIN st.saved \cup {k} |->
                     IF x = k
                     THEN [constraints |-> extras \o pin_version(translated.value),
                           markers |-> markers]
                     ELSE st.saved[x]]]
        ELSE [st EXCEPT !.buf = Append(@, H_Requires_Dist \o <<":", " ">> \o k \o extras
                                          \o pin_version(translated.value) \o markers
                                          \o <<"\n">>)]

RECURSIVE poetry_dependencies(_, _)
poetry_dependencies(st, items) ==
    IF items = <<>> THEN st
    ELSE poetry_dependencies(poetry_dependency(st, Head(items).k, Head(items).v),
                             Tail(items))

\* the inner loop over the dependencies named by the extra k
RECURSIVE poetry_extra_requirements(_, _, _)
poetry_extra_requirements(st, k, names) ==
    IF names = <<>> \/ st.exc # NoException THEN st
    ELSE LET vi == canonicalize_name(Head(names))
         IN  IF vi \notin DOMAIN st.saved
             THEN [st EXCEPT !.exc = [type |-> "KeyError"]]
             ELSE poetry_extra_requirements(
                      [st EXCEPT !.buf = Append(@,
                          H_Requires_Dist \o <<":", " ">> \o vi
                          \o st.saved[vi].constraints
                          \o merge_extra_marker(k, st.saved[vi].markers))],
                      k, Tail(names))

\* the loop over tool.poetry.extras
RECURSIVE poetry_extras(_, _)
poetry_extras(st, items) ==
    IF items = <<>> \/ st.exc # NoException THEN st
    ELSE LET k == canonicalize_name(Head(items).k)
         IN  poetry_extras(
                 poetry_extra_requirements(
                     [st EXCEPT !.buf = Append(@, header(H_Provides_Extra, k))],
                     k, Head(items).v),
                 Tail(items))

from_poetry_checkout(path) ==
    LET data == read_text(path, "pyproject.toml")
        doc == data.value
        poetry == get_or(get_or(doc, "tool", EmptyDict), "poetry", EmptyDict)
        st == poetry_extras(
                  poetry_dependencies([buf |-> <<>>, saved |-> EmptyDict, exc |-> NoException],
                                      get_or(poetry, "dependencies", <<>>)),
                  get_or(poetry, "extras", <<>>))
        name == get_opt(poetry, "name")
        version == get_opt(poetry, "version")
        requires_python == get_opt(poetry, "requires-python")
        url == get_opt(poetry, "homepage")
        authors == get_opt(poetry, "authors")
        summary == get_opt(poetry, "description")
        description == get_opt(poetry, "readme")
        keywords == get_opt(poetry, "keywords")
    IN  IF data.exc # NoException
        THEN [exc |-> NoException, value |-> <<>>, reads |-> <<>>]
        ELSE IF st.exc # NoException
        THEN [exc |-> st.exc, value |-> <<>>, reads |-> data.reads]
        ELSE [exc |-> NoException,
              reads |-> data.reads,
              value |-> concat(
                  st.buf
                  \o if_truthy(name, <<header(H_Name, the(name))>>)
                  \o if_truthy(version, <<header(H_Version, the(version))>>)
                  \o if_truthy(requires_python,
                               <<header(H_Requires_Python, the(requires_python))>>)
                  \o if_truthy(url, <<header(H_Home_Page, the(url))>>)
                  \o if_truthy(authors, <<header(H_Author, repr_list(the(authors)))>>)
                  \o if_truthy(summary, <<header(H_Summary, the(summary))>>)
                  \o if_truthy(description, <<header(H_Description, the(description))>>)
                  \o if_truthy(keywords, <<header(H_Keywords, repr_list(the(keywords)))>>))]

\* rc.get(section, option) of a RawConfigParser, with NoSectionError and
\* NoOptionError as None: rc maps each section to its items, in file order
rc_get(rc, section, option) ==
    IF section \notin DOMAIN rc THEN {}
    ELSE LET found == SelectSeq(rc[section], LAMBDA item : item.k = option)
         IN  IF found = <<>> THEN {} ELSE {found[1].v}

\* "try: buf.append(line) except (NoOptionError, NoSectionError): pass"
if_present(x, key) == IF x = {} THEN <<>> ELSE <<header(key, the(x))>>

\* the non-blank lines of a multi-line value, stripped
stripped_lines(v) ==
    SelectSeq([i \in 1..Len(splitlines(v)) |-> strip(splitlines(v)[i])],
              LAMBDA dep : dep # <<>>)

\* the loop over the items of [options.extras_require]
RECURSIVE cfg_extras_lines(_)
cfg_extras_lines(items) ==
    IF items = <<>> THEN <<>>
    ELSE extra_lines(Head(items).k, stripped_lines(Head(items).v))
         \o cfg_extras_lines(Tail(items))

from_setup_cfg_checkout(path) ==
    LET data == read_text(path, "setup.cfg")
        rc == data.value
        install_requires == rc_get(rc, "options", <<"i", "n", "s", "t", "a", "l", "l", "_", "r", "e", "q", "u", "i", "r", "e", "s">>)
    IN  IF data.exc # NoException
        THEN [exc |-> NoException, value |-> <<>>, reads |-> <<>>]
        ELSE [exc |-> NoException,
              reads |-> data.reads,
              value |-> concat(
                  if_present(rc_get(rc, "metadata", <<"n", "a", "m", "e">>), H_Name)
                  \o if_present(rc_get(rc, "options", <<"p", "y", "t", "h", "o", "n", "_", "r", "e", "q", "u", "i", "r", "e", "s">>),
                                H_Requires_Python)
                  \o if_present(rc_get(rc, "metadata", <<"u", "r", "l">>), H_Home_Page)
                  \o if_present(rc_get(rc, "metadata", <<"a", "u", "t", "h", "o", "r">>), H_Author)
                  \o if_present(rc_get(rc, "metadata", <<"a", "u", "t", "h", "o", "r", "_", "e", "m", "a", "i", "l">>), H_Author_Email)
                  \o if_present(rc_get(rc, "metadata", <<"d", "e", "s", "c", "r", "i", "p", "t", "i", "o", "n">>), H_Summary)
                  \o if_present(rc_get(rc, "metadata", <<"l", "o", "n", "g", "_", "d", "e", "s", "c", "r", "i", "p", "t", "i", "o", "n">>),
                                H_Description)
                  \o if_present(rc_get(rc, "metadata", <<"l", "o", "n", "g", "_", "d", "e", "s", "c", "r", "i", "p", "t", "i", "o", "n", "_", "c", "o", "n", "t", "e", "n", "t", "_", "t", "y", "p", "e">>),
                                H_Description_Content_Type)
                  \o (IF install_requires = {} THEN <<>>
                      ELSE LET deps == stripped_lines(the(install_requires))
                           IN  [i \in 1..Len(deps) |-> header(H_Requires_Dist, deps[i])])
                  \o (IF "options.extras_require" \in DOMAIN rc
                      THEN cfg_extras_lines(rc["options.extras_require"])
                      ELSE <<>>))]

(***************************************************************************)
(* source_checkout_ast.py.  A syntax tree node is a record with its class  *)
(* name (type) and its fields; a Name node also has uid, which stands for  *)
(* the identity of the object: all Name nodes of one tree have different   *)
(* uids.                                                                   *)
(***************************************************************************)
Module(body) == [type |-> "Module", body |-> body]
Expr(value) == [type |-> "Expr", value |-> value]
Name(uid, id) == [type |-> "Name", uid |-> uid, id |-> id]
Attribute(value, attr) == [type |-> "Attribute", value |-> value, attr |-> attr]
Call(func, args, keywords) ==
    [type |-> "Call", func |-> func, args |-> args, keywords |-> keywords]
\* keyword(arg, value): arg is None for "**kwargs"
keyword(arg, value) == [type |-> "keyword", arg |-> arg, value |-> value]
Constant(value) == [type |-> "Constant", value |-> value]
List(elts) == [type |-> "List", elts |-> elts]
Dict(keys, values) == [type |-> "Dict", keys |-> keys, values |-> values]
Assign(targets, value) == [type |-> "Assign", targets |-> targets, value |-> value]
alias(name, asname) == [type |-> "alias", name |-> name, asname |-> asname]
Import(names) == [type |-> "Import", names |-> names]
ImportFrom(module, names, level) ==
    [type |-> "ImportFrom", module |-> module, names |-> names, level |-> level]
FunctionDef(name, body) == [type |-> "FunctionDef", name |-> name, body |-> body]
If(test, body, orelse) ==
    [type |-> "If", test |-> test, body |-> body, orelse |-> orelse]

\* the child nodes of a node, in the order of ast.iter_fields
iter_child_nodes(node) ==
    CASE node.type = "Module" -> node.body
      [] node.type = "Expr" -> <<node.value>>
      [] node.type = "Attribute" -> <<node.value>>
      [] node.type = "Call" -> <<node.func>> \o node.args \o node.keywords
      [] node.type = "keyword" -> <<node.value>>
      [] node.type = "List" -> node.elts
      [] node.type = "Dict" -> node.keys \o node.values
      [] node.type = "Assign" -> node.targets \o <<node.value>>
      [] node.type = "Import" -> node.names
      [] node.type = "ImportFrom" -> node.names
      [] node.type = "FunctionDef" -> node.body
      [] node.type = "If" -> <<node.test>> \o node.body \o node.orelse
      [] OTHER -> <<>>

\* the one instance of Unknown, and a value that is not it
UNKNOWN == [unknown |-> TRUE]
Literal(v) == [literal |-> v]
is_UNKNOWN(x) == "unknown" \in DOMAIN x

\* a == b of two nodes: ast.AST does not define __eq__, so it is identity
same_object(a, b) == "uid" \in DOMAIN a /\ "uid" \in DOMAIN b /\ a.uid = b.uid

\* a list or a dict is not hashable: it cannot be the key of a dict
unhashable(node) == node.type \in {"List", "Dict"}

\* ast.literal_eval(node): ValueError for a node that is not a literal.  The
\* elements are converted in order, and the items of a dict are converted and
\* inserted in order (dict(zip(map(_convert, keys), map(_convert, values)))):
\* the insertion of a key raises TypeError when the key is not hashable
RECURSIVE literal_eval(_)
literal_eval(node) ==
    CASE node.type = "Constant" -> Returned(node.value)
      [] node.type = "List" ->
            LET elts == [i \in 1..Len(node.elts) |-> literal_eval(node.elts[i])]
                failed == {i \in 1..Len(elts) : elts[i].exc # NoException}
            IN  IF failed # {}
                THEN elts[CHOOSE i \in failed : \A j \in failed : i <= j]
                ELSE Returned([i \in 1..Len(elts) |-> elts[i].value])
      [] node.type = "Dict" ->
            LET keys == [i \in 1..Len(node.keys) |-> literal_eval(node.keys[i])]
                values == [i \in 1..Len(node.values) |-> literal_eval(node.values[i])]
                failed == {i \in 1..Len(keys) :
                              \/ keys[i].exc # NoException
                              \/ values[i].exc # NoException
                              \/ unhashable(node.keys[i])}
                first == CHOOSE i \in failed : \A j \in failed : i <= j
            IN  IF failed # {}
                THEN IF keys[first].exc # NoException THEN keys[first]
                     ELSE IF values[first].exc # NoException THEN values[first]
                     ELSE Raised("TypeError")
                ELSE Returned([i \in 1..Len(keys) |->
                                  [k |-> keys[i].value, v |-> values[i].value]])
      [] OTHER -> Raised("ValueError")

\* QualifiedNameSaver.qualified_name
RECURSIVE qualified_name(_, _)
qualified_name(prefixes, node) ==
    CASE node.type = "Attribute" ->
            LET q == qualified_name(prefixes, node.value)
            IN  IF q.exc # NoException THEN q
                ELSE Returned(q.value \o <<".">> \o node.attr)
      [] node.type = "Expr" -> qualified_name(prefixes, node.value)
      [] node.type = "Name" ->
            IF truthy(get_opt(prefixes, node.id)) THEN Returned(prefixes[node.id])
            ELSE Returned(<<"<", "l", "o", "c", "a", "l", "s", ">", ".">> \o node.id)
      [] OTHER -> Raised("ValueError")

\* d[k] = v
dict_set(d, k, v) == [x \in DOMAIN d \cup {k} |-> IF x = k THEN v ELSE d[x]]

\* a.asname or a.name
alias_key(a) == IF truthy(a.asname) THEN the(a.asname) ELSE a.name

\* QualifiedNameSaver.visit_Import
RECURSIVE import_names(_, _, _)
import_names(prefixes, names, prefix) ==
    IF names = <<>> THEN prefixes
    ELSE import_names(dict_set(prefixes, alias_key(Head(names)),
                               prefix \o Head(names).name),
                      Tail(names), prefix)

visit_Import(st, node) ==
    [st EXCEPT !.qualified_name_prefixes = import_names(@, node.names, <<>>)]

\* QualifiedNameSaver.visit_ImportFrom
visit_ImportFrom(st, node) ==
    LET prefix == IF truthy(node.module) THEN the(node.module) \o <<".">>
                  ELSE [i \in 1..node.level |-> "."]
    IN  [st EXCEPT !.qualified_name_prefixes = import_names(@, node.names, prefix)]

\* SetupFindingVisitor.locate_assignment_value
locate_assignment_value(body, name) ==
    LET found == {i \in 1..Len(body) :
                     /\ body[i].type = "Assign"
                     /\ Len(body[i].targets) = 1
                     /\ same_object(body[i].targets[1], name)}
    IN  IF found = {} THEN UNKNOWN
        ELSE body[CHOOSE i \in found : \A j \in found : i <= j].value

\* "except ValueError: UNKNOWN" for the outcome r of ast.literal_eval:
\* another exception is not caught
except_ValueError(r) ==
    IF r.exc = NoException THEN Returned(Literal(r.value))
    ELSE IF r.exc.type = "ValueError" THEN Returned(UNKNOWN)
    ELSE r

\* "try: ast.literal_eval(v) except ValueError: UNKNOWN"
literal_or_UNKNOWN(node) == except_ValueError(literal_eval(node))

\* the loop "for p in self.stack[::-1]" of visit_Call, for the Name node name
RECURSIVE resolve_name(_, _)
resolve_name(stack, name) ==
    IF stack = <<>> THEN Returned(UNKNOWN)
    ELSE LET p == stack[Len(stack)]
             v == IF "body" \in DOMAIN p
                  THEN locate_assignment_value(p.body, name)
                  ELSE UNKNOWN
         IN  IF is_UNKNOWN(v)
             THEN resolve_name(SubSeq(stack, 1, Len(stack) - 1), name)
             ELSE literal_or_UNKNOWN(v)

\* "d[k.arg] = ..." for the outcome v of the evaluation of the keyword value
set_keyword(s, arg, v) ==
    IF v.exc # NoException THEN [s EXCEPT !.exc = v.exc]
    ELSE [s EXCEPT !.d = dict_set(@, arg, v.value)]

\* the loop "for k in node.keywords" of visit_Call, from the state
\* s = [d, kwargs, exc] of the mapping d, of setup_call_kwargs and of the
\* exception that ended the loop
RECURSIVE setup_keywords(_, _, _)
setup_keywords(stack, keywords, s) ==
    IF keywords = <<>> \/ s.exc # NoException THEN s
    ELSE setup_keywords(stack, Tail(keywords),
             IF Head(keywords).arg = {} THEN [s EXCEPT !.kwargs = TRUE]
             ELSE set_keyword(s, the(Head(keywords).arg),
                              IF Head(keywords).value.type = "Name"
                              THEN resolve_name(stack, Head(keywords).value)
                              ELSE literal_or_UNKNOWN(Head(keywords).value)))

SETUPTOOLS_SETUP == <<"s", "e", "t", "u", "p", "t", "o", "o", "l", "s", ".", "s", "e", "t", "u", "p">>
DISTUTILS_SETUP == <<"d", "i", "s", "t", "u", "t", "i", "l", "s", ".", "s", "e", "t", "u", "p">>

RECURSIVE visit(_, _), visit_children(_, _)

\* the visitor when the loop over the keywords has ended in the state s
setup_call(st, s) ==
    [st EXCEPT !.setup_call_args = {s.d},
               !.setup_call_kwargs = {s.kwargs},
               !.raised = s.exc]

\* the callee is setuptools.setup or distutils.setup
is_setup(qn) == qn.exc = NoException /\ qn.value \in {SETUPTOOLS_SETUP, DISTUTILS_SETUP}

\* SetupFindingVisitor.visit_Call, variant: the mapping of an earlier setup
\* call is kept and added to
visit_Call_keeping_earlier_keys(st, node) ==
    IF is_setup(qualified_name(st.qualified_name_prefixes, node.func))
    THEN setup_call(st, setup_keywords(st.stack, node.keywords,
                            [d |-> IF st.setup_call_args = {} THEN EmptyDict
                                   ELSE the(st.setup_call_args),
                             kwargs |-> FALSE, exc |-> NoException]))
    ELSE st

\* SetupFindingVisitor.visit_Call
visit_Call(st, node) ==
    IF is_setup(qualified_name(st.qualified_name_prefixes, node.func))
    THEN setup_call(st, setup_keywords(st.stack, node.keywords,
                            [d |-> EmptyDict, kwargs |-> FALSE, exc |-> NoException]))
    ELSE st

\* the visitor method of the node alone: generic_visit, which asks for the
\* children to be visited, changes nothing by itself
visit_node(st, node) ==
    CASE node.type = "Import" -> visit_Import(st, node)
      [] node.type = "ImportFrom" -> visit_ImportFrom(st, node)
      [] node.type = "Call" -> visit_Call(st, node)
      [] OTHER -> st

\* the visitor method of the node returns a true value: only generic_visit
visits_children(node) == node.type \notin {"Import", "ImportFrom", "Call"}

\* SetupFindingVisitor.visit and ShortCircuitingVisitor.visit: the node is on
\* the stack while its visitor runs; the children are visited when the
\* visitor returned a true value; "finally" pops the stack also when an
\* exception leaves the visitor
visit(st, node) ==
    [(IF visits_children(node)
      THEN visit_children([st EXCEPT !.stack = Append(@, node)], iter_child_nodes(node))
      ELSE visit_node([st EXCEPT !.stack = Append(@, node)], node))
     EXCEPT !.stack = st.stack]

\* ShortCircuitingVisitor.visit_children, over the child nodes left to
\* visit: an exception ends the walk
visit_children(st, nodes) ==
    IF nodes = <<>> \/ st.raised # NoException THEN st
    ELSE visit_children(visit(st, Head(nodes)), Tail(nodes))

\* SetupFindingVisitor(): the visitor after construction; raised is the
\* exception that left the walk, if any
SetupFindingVisitor ==
    [qualified_name_prefixes |-> EmptyDict,
     setup_call_args |-> {},
     setup_call_kwargs |-> {},
     stack |-> <<>>,
     raised |-> NoException]

(***************************************************************************)
(* source_checkout.py: from_setup_py_checkout.  The content of setup.py is *)
(* its syntax tree.                                                        *)
(***************************************************************************)
\* "if r:" of a value of setup_call_args.get(key)
arg_truthy(x) == x # {} /\ (is_UNKNOWN(the(x)) \/ the(x).literal # <<>>)

\* consumed, variant: an UNKNOWN value is skipped like a missing one
consumed_skipping_UNKNOWN(x, lines) ==
    IF ~arg_truthy(x) \/ is_UNKNOWN(the(x)) THEN Returned(<<>>)
    ELSE Returned(lines)

\* one "if n: if n is UNKNOWN: raise ValueError ... buf.append" block:
\* the lines it appends, or ValueError
consumed(x, lines) ==
    IF ~arg_truthy(x) THEN Returned(<<>>)
    ELSE IF is_UNKNOWN(the(x)) THEN Raised("ValueError")
    ELSE Returned(lines)

\* the blocks in program order: the first exception ends the function
RECURSIVE blocks(_)
blocks(bs) ==
    IF bs = <<>> THEN Returned(<<>>)
    ELSE IF Head(bs).exc # NoException THEN Head(bs)
    ELSE LET rest == blocks(Tail(bs))
         IN  IF rest.exc # NoException THEN rest
             ELSE Returned(Head(bs).value \o rest.value)

\* the lines of the project_urls loop
url_lines(items) == [i \in 1..Len(items) |-> H_Project_URL_eq(items[i].k, items[i].v)]

\* the metadata for the keyword arguments args of the setup call
setup_py_metadata(args) ==
    LET r == get_opt(args, "install_requires")
        er == get_opt(args, "extras_require")
        n == get_opt(args, "name")
        python_requires == get_opt(args, "python_requires")
        url == get_opt(args, "url")
        project_urls == get_opt(args, "project_urls")
    IN  blocks(<<
            consumed(r, [i \in 1..Len(the(r).literal) |->
                            header(H_Requires_Dist, the(r).literal[i])]),
            consumed(er, extras_lines(the(er).literal)),
            consumed(n, <<header(H_Name, the(n).literal)>>),
            consumed(python_requires,
                     <<header(H_Requires_Python, the(python_requires).literal)>>),
            consumed(url, <<header(H_Home_Page, the(url).literal)>>),
            consumed(project_urls, url_lines(the(project_urls).literal))>>)

\* from_setup_py_checkout after the walk: v is the visitor
setup_py_checkout(v) ==
    IF v.raised # NoException THEN Raised(v.raised.type)
    ELSE IF v.setup_call_args = {} \/ v.setup_call_args = {EmptyDict}
    THEN Returned(<<>>)
    ELSE LET buf == setup_py_metadata(the(v.setup_call_args))
         IN  IF buf.exc # NoException THEN [exc |-> buf.exc, value |-> <<>>]
             ELSE Returned(concat(buf.value))

\* the outcome r of the function, with the files read
reading(r, reads) == [exc |-> r.exc, value |-> r.value, reads |-> reads]

from_setup_py_checkout(path) ==
    LET data == read_text(path, "setup.py")
    IN  IF data.exc # NoException
        THEN [exc |-> NoException, value |-> <<>>, reads |-> <<>>]
        ELSE reading(setup_py_checkout(visit(SetupFindingVisitor, data.value)),
                     data.reads)

(***************************************************************************)
(* source_checkout.py: from_source_checkout and                            *)
(* basic_metadata_from_source_checkout.                                    *)
(***************************************************************************)
\* "a or b", variant: b is evaluated also when a raised
or_else_after_error(a, b) ==
    IF a.exc = NoException /\ a.value # <<>> THEN a
    ELSE [b EXCEPT !.reads = a.reads \o @]

\* "a or b": b is evaluated when a returned a false value; the files read
\* by a stay read
or_else(a, b) ==
    IF a.exc # NoException \/ a.value # <<>> THEN a
    ELSE [b EXCEPT !.reads = a.reads \o @]

\* from_source_checkout with setup.cfg tried before the Poetry table
from_source_checkout_cfg_before_poetry(path) ==
    or_else(from_pep621_checkout(path),
            or_else(from_setup_cfg_checkout(path),
                    or_else(from_poetry_checkout(path),
                            from_setup_py_checkout(path))))

from_source_checkout(path) ==
    or_else(from_pep621_checkout(path),
            or_else(from_poetry_checkout(path),
                    or_else(from_setup_cfg_checkout(path),
                            from_setup_py_checkout(path))))

basic_metadata_from_source_checkout(path) ==
    LET metadata == from_source_checkout(path)
    IN  IF metadata.exc # NoException THEN metadata
        ELSE [metadata EXCEPT !.value = from_metadata(@)]

(***************************************************************************)
(* The source checkouts: a checkout is the function from the names of its  *)
(* files to their parsed contents.                                         *)
(***************************************************************************)
\* how many of the sample documents of each kind are used
MaxDocuments == 8

\* the parsed pyproject.toml documents of the sample checkouts
PyProjects ==
    <<EmptyDict,
      ("project" :> ("name" :> <<"n">> @@ "dependencies" :> <<<<"a">>>> @@ "optional-dependencies" :> <<[k |-> <<"E", "_", "x">>, v |-> <<<<"b", ";", " ", "c">>>>]>>)),
      ("tool" :> ("poetry" :> ("name" :> <<"p">> @@ "dependencies" :> <<[k |-> <<"p", "y", "t", "h", "o", "n">>, v |-> [str |-> <<"^", "3", ".", "6">>]], [k |-> <<"A", "_", "b">>, v |-> [str |-> <<"1", ".", "0">>]], [k |-> <<"c">>, v |-> [str |-> <<"*">>]], [k |-> <<"d">>, v |-> [str |-> <<"^", "1", ".", "2">>]], [k |-> <<"e">>, v |-> [str |-> <<"~", "1">>]], [k |-> <<"g">>, v |-> [dict |-> ("git" :> <<"u">>)]], [k |-> <<"h">>, v |-> [dict |-> ("version" :> <<"2">> @@ "python" :> <<"<", "3">> @@ "extras" :> <<<<"x">>>>)]], [k |-> <<"o">>, v |-> [dict |-> ("version" :> <<"^", "2">> @@ "optional" :> TRUE @@ "markers" :> <<"m">>)]], [k |-> <<"q">>, v |-> [dict |-> ("version" :> <<"2">> @@ "optional" :> TRUE)]], [k |-> <<"u">>, v |-> [dict |-> ("version" :> <<"1">> @@ "optional" :> TRUE)]]>> @@ "extras" :> <<[k |-> <<"F", "_", "x">>, v |-> <<<<"O">>, <<"q">>>>], [k |-> <<"G">>, v |-> <<>>]>>))),
      ("tool" :> ("poetry" :> ("dependencies" :> <<[k |-> <<"a">>, v |-> [str |-> <<"^", "0">>]]>>))),
      ("tool" :> ("poetry" :> ("name" :> <<"p">> @@ "dependencies" :> <<[k |-> <<"a">>, v |-> [str |-> <<"1">>]], [k |-> <<"b">>, v |-> [dict |-> ("version" :> <<"^", "0", ".", "0", ".", "0">>)]]>>))),
      ("tool" :> ("poetry" :> ("extras" :> <<[k |-> <<"f", "o", "o">>, v |-> <<<<"b", "a", "r">>>>]>>))),
      ("tool" :> ("poetry" :> ("dependencies" :> <<[k |-> <<"a">>, v |-> [str |-> <<"^", "0", ".", "2">>]], [k |-> <<"o">>, v |-> [dict |-> ("version" :> <<"~", "1", ".", "2">> @@ "optional" :> TRUE)]]>> @@ "extras" :> <<[k |-> <<"F", "o", "o">>, v |-> <<<<"O">>>>]>>))),
      ("tool" :> ("poetry" :> ("dependencies" :> <<[k |-> <<"a">>, v |-> [str |-> <<"1">>]], [k |-> <<"b">>, v |-> [dict |-> ("version" :> <<"1">> @@ "python" :> <<"^", "3", ".", "6">>)]]>>))),
      ("project" :> ("version" :> <<"1">>) @@ "tool" :> ("poetry" :> ("name" :> <<"p">>)))>>

\* the parsed setup.cfg documents of the sample checkouts
SetupCfgs ==
    <<EmptyDict,
      ("metadata" :> <<[k |-> <<"n", "a", "m", "e">>, v |-> <<"n">>]>> @@ "options" :> <<[k |-> <<"i", "n", "s", "t", "a", "l", "l", "_", "r", "e", "q", "u", "i", "r", "e", "s">>, v |-> <<"\n", "x", "\n", "y">>]>> @@ "options.extras_require" :> <<[k |-> <<"d", "_", "e">>, v |-> <<"\n", "f", ";", " ", "g">>]>>),
      ("other" :> <<[k |-> <<"n", "a", "m", "e">>, v |-> <<"n">>]>>),
      ("options" :> <<[k |-> <<"p", "y", "t", "h", "o", "n", "_", "r", "e", "q", "u", "i", "r", "e", "s">>, v |-> <<">", "=", "3">>]>>),
      ("options.extras_require" :> <<[k |-> <<"d">>, v |-> <<>>]>>)>>

\* the syntax trees of the setup.py files of the sample checkouts
SetupPys ==
    <<Module(<<>>),
      Module(<<ImportFrom({<<"s", "e", "t", "u", "p", "t", "o", "o", "l", "s">>}, <<alias(<<"s", "e", "t", "u", "p">>, {})>>, 0), Expr(Call(Name(1, <<"s", "e", "t", "u", "p">>), <<>>, <<>>))>>),
      Module(<<Import(<<alias(<<"s", "e", "t", "u", "p", "t", "o", "o", "l", "s">>, {})>>), Expr(Call(Attribute(Name(1, <<"s", "e", "t", "u", "p", "t", "o", "o", "l", "s">>), <<"s", "e", "t", "u", "p">>), <<>>, <<keyword({"install_requires"}, List(<<Constant(<<"a">>)>>)), keyword({"extras_require"}, Dict(<<Constant(<<"B">>)>>, <<List(<<Constant(<<"c">>)>>)>>))>>))>>),
      Module(<<ImportFrom({<<"s", "e", "t", "u", "p", "t", "o", "o", "l", "s">>}, <<alias(<<"s", "e", "t", "u", "p">>, {})>>, 0), Expr(Call(Name(1, <<"s", "e", "t", "u", "p">>), <<>>, <<keyword({"install_requires"}, Name(2, <<"b", "l", "a", "r", "g">>))>>))>>),
      Module(<<Import(<<alias(<<"s", "e", "t", "u", "p", "t", "o", "o", "l", "s">>, {})>>), Expr(Call(Attribute(Name(1, <<"s", "e", "t", "u", "p", "t", "o", "o", "l", "s">>), <<"s", "e", "t", "u", "p">>), <<>>, <<keyword({"zip_safe"}, Call(Name(2, <<"f">>), <<>>, <<>>)), keyword({"name"}, Constant(<<"n">>))>>))>>),
      Module(<<Import(<<alias(<<"s", "e", "t", "u", "p", "t", "o", "o", "l", "s">>, {})>>), Expr(Call(Attribute(Name(1, <<"s", "e", "t", "u", "p", "t", "o", "o", "l", "s">>), <<"s", "e", "t", "u", "p">>), <<>>, <<keyword({"url"}, Constant(<<"u">>)), keyword({"python_requires"}, Name(2, <<"n">>)), keyword({"project_urls"}, Dict(<<Constant(<<"a">>)>>, <<Constant(<<"b">>)>>))>>))>>),
      Module(<<Import(<<alias(<<"s", "e", "t", "u", "p", "t", "o", "o", "l", "s">>, {})>>), Expr(Call(Attribute(Name(1, <<"s", "e", "t", "u", "p", "t", "o", "o", "l", "s">>), <<"s", "e", "t", "u", "p">>), <<>>, <<keyword({"name"}, Constant(<<>>)), keyword({"install_requires"}, List(<<>>)), keyword({"extras_require"}, Dict(<<>>, <<>>))>>))>>),
      Module(<<Import(<<alias(<<"s", "e", "t", "u", "p", "t", "o", "o", "l", "s">>, {})>>), Expr(Call(Attribute(Name(1, <<"s", "e", "t", "u", "p", "t", "o", "o", "l", "s">>), <<"s", "e", "t", "u", "p">>), <<>>, <<keyword({"project_urls"}, Dict(<<Constant(<<"a">>), Constant(<<"c">>)>>, <<Constant(<<"b">>), Constant(<<"d">>)>>)), keyword({"extras_require"}, Dict(<<Constant(<<"D">>)>>, <<List(<<>>)>>))>>))>>)>>

\* the file name with the i-th document, or no file when i = 0
file(name, docs, i) == IF i = 0 THEN EmptyDict ELSE (name :> docs[i])

Checkout(i, j, k) ==
    file("pyproject.toml", PyProjects, i)
    @@ file("setup.cfg", SetupCfgs, j)
    @@ file("setup.py", SetupPys, k)

\* the indices of the documents used, 0 for an absent file
Indices(docs, maxDocuments) ==
    0..(IF Len(docs) < maxDocuments THEN Len(docs) ELSE maxDocuments)

CheckoutFns ==
    {"from_pep621_checkout", "from_poetry_checkout", "from_setup_cfg_checkout",
     "from_setup_py_checkout", "from_source_checkout",
     "basic_metadata_from_source_checkout"}

InitCheckout ==
    /\ pc = "call"
    /\ \E i \in Indices(PyProjects, MaxDocuments),
          j \in Indices(SetupCfgs, MaxDocuments),
          k \in Indices(SetupPys, MaxDocuments) :
           call \in [fn : CheckoutFns, path : {Checkout(i, j, k)}]
    /\ ret = <<>>
    /\ exc = NoException
    /\ files_read = <<>>

FromPep621Checkout ==
    /\ pc = "call"
    /\ call.fn = "from_pep621_checkout"
    /\ FinishReading(from_pep621_checkout(call.path))
    /\ UNCHANGED call

FromPoetryCheckout ==
    /\ pc = "call"
    /\ call.fn = "from_poetry_checkout"
    /\ FinishReading(from_poetry_checkout(call.path))
    /\ UNCHANGED call

FromSetupCfgCheckout ==
    /\ pc = "call"
    /\ call.fn = "from_setup_cfg_checkout"
    /\ FinishReading(from_setup_cfg_checkout(call.path))
    /\ UNCHANGED call

FromSetupPyCheckout ==
    /\ pc = "call"
    /\ call.fn = "from_setup_py_checkout"
    /\ FinishReading(from_setup_py_checkout(call.path))
    /\ UNCHANGED call

FromSourceCheckout ==
    /\ pc = "call"
    /\ call.fn = "from_source_checkout"
    /\ FinishReading(from_source_checkout(call.path))
    /\ UNCHANGED call

BasicMetadataFromSourceCheckout ==
    /\ pc = "call"
    /\ call.fn = "basic_metadata_from_source_checkout"
    /\ FinishReading(basic_metadata_from_source_checkout(call.path))
    /\ UNCHANGED call

NextCheckout ==
    \/ FromPep621Checkout
    \/ FromPoetryCheckout
    \/ FromSetupCfgCheckout
    \/ FromSetupPyCheckout
    \/ FromSourceCheckout
    \/ BasicMetadataFromSourceCheckout

SpecCheckout == InitCheckout /\ [][NextCheckout]_vars

(***************************************************************************)
(* Properties of the source checkout functions.                            *)
(***************************************************************************)
\* the call of fn has ended, with a value or with an exception
CheckoutDone(fn) == pc = "done" /\ call.fn = fn

\* what each producer does with the path when called on its own, in the
\* order PEP 621, Poetry, setup.cfg, setup.py
Producers(path) ==
    <<from_pep621_checkout(path), from_poetry_checkout(path),
      from_setup_cfg_checkout(path), from_setup_py_checkout(path)>>

ReturnedEmpty(r) == r.exc = NoException /\ r.value = <<>>
ReturnedNonEmpty(r) == r.exc = NoException /\ r.value # <<>>

\* the files read by the first n producers, in order
RECURSIVE ReadsUpTo(_, _)
ReadsUpTo(outs, n) ==
    IF n = 0 THEN <<>> ELSE ReadsUpTo(outs, n - 1) \o outs[n].reads

\* C12: from_source_checkout returns the output of the first producer, in the
\* order PEP 621, Poetry, setup.cfg, setup.py, whose output is non-empty, and
\* has then read only the files of the producers up to that one, whatever a
\* later producer would have done; its result is empty only if all four
\* producers returned empty output.
C12_FirstNonEmptyProducer ==
    CheckoutDone("from_source_checkout") =>
        \A outs \in {Producers(call.path)} :
            /\ \A n \in 1..4 :
                   (/\ ReturnedNonEmpty(outs[n])
                    /\ \A m \in 1..(n - 1) : ReturnedEmpty(outs[m]))
                   => /\ exc = NoException
                      /\ ret = outs[n].value
                      /\ files_read = ReadsUpTo(outs, n)
            /\ (\A n \in 1..4 : ReturnedEmpty(outs[n]))
                   => /\ exc = NoException
                      /\ ret = <<>>
                      /\ files_read = ReadsUpTo(outs, 4)
            /\ (exc = NoException /\ ret = <<>>)
                   => \A n \in 1..4 : ReturnedEmpty(outs[n])

\* setup.cfg gave the output after PEP 621 and Poetry gave none, with a
\* setup.py that from_setup_py_checkout fails on
C12_Witness ==
    /\ CheckoutDone("from_source_checkout")
    /\ exc = NoException
    /\ ret # <<>>
    /\ files_read = <<"pyproject.toml", "pyproject.toml", "setup.cfg">>
    /\ from_setup_py_checkout(call.path).exc.type = "ValueError"

\* the tables of a pyproject.toml document that from_poetry_checkout reads
PoetryTable(path) ==
    get_or(get_or(path["pyproject.toml"], "tool", EmptyDict), "poetry", EmptyDict)
PoetryDependencies(path) == get_or(PoetryTable(path), "dependencies", <<>>)
PoetryExtras(path) == get_or(PoetryTable(path), "extras", <<>>)

\* the parts of one dependency specification
DepIsTable(v) == "dict" \in DOMAIN v
DepVersion(v) == IF DepIsTable(v) THEN get_or(v.dict, "version", <<>>) ELSE v.str
DepOptional(v) == DepIsTable(v) /\ get_or(v.dict, "optional", FALSE)
DepConstraint(v) ==
    (IF DepIsTable(v) /\ "extras" \in DOMAIN v.dict
     THEN <<"[">> \o join(<<",">>, v.dict["extras"]) \o <<"]">>
     ELSE <<>>)
    \o pin_version(translate_version(DepVersion(v)).value)
DepMarker(v) ==
    LET python == IF DepIsTable(v) THEN get_or(v.dict, "python", <<>>) ELSE <<>>
        marker == IF ~DepIsTable(v) THEN <<>>
                  ELSE combine_markers(<<get_or(v.dict, "markers", <<>>),
                           IF python = <<>> THEN <<>>
                           ELSE python_version_marker(the(OPERATOR_RE_fullmatch(python)))>>)
    IN  IF marker = <<>> THEN <<>> ELSE <<" ", ";", " ">> \o marker

\* the dependencies with a version, the python key left out
VersionedDependencies(path) ==
    SelectSeq(PoetryDependencies(path),
              LAMBDA it : it.k # <<"p", "y", "t", "h", "o", "n">> /\ DepVersion(it.v) # <<>>)

\* the requirement of each non-optional dependency, in declaration order
PlainRequirements(path) ==
    LET deps == SelectSeq(VersionedDependencies(path), LAMBDA it : ~DepOptional(it.v))
    IN  [i \in 1..Len(deps) |->
            canonicalize_name(deps[i].k) \o DepConstraint(deps[i].v) \o DepMarker(deps[i].v)]

\* the optional dependency that the name refers to: the last one declared
\* under that canonical name
OptionalNamed(path, name) ==
    LET deps == SelectSeq(VersionedDependencies(path),
                    LAMBDA it : /\ DepOptional(it.v)
                                /\ canonicalize_name(it.k) = canonicalize_name(name))
    IN  deps[Len(deps)].v

\* the requirements of one extra: each optional dependency it references,
\* gated by the canonical name of the extra combined with its marker
ExtraRequirements(path, extra) ==
    [i \in 1..Len(extra.v) |->
        canonicalize_name(extra.v[i])
        \o DepConstraint(OptionalNamed(path, extra.v[i]))
        \o merge_extra_marker(canonicalize_name(extra.k),
                              DepMarker(OptionalNamed(path, extra.v[i])))]

RECURSIVE AllExtraRequirements(_, _)
AllExtraRequirements(path, extras) ==
    IF extras = <<>> THEN <<>>
    ELSE ExtraRequirements(path, Head(extras)) \o AllExtraRequirements(path, Tail(extras))

\* the canonical names of the extras declared in tool.poetry.extras
DeclaredExtras(path) ==
    {canonicalize_name(PoetryExtras(path)[i].k) : i \in 1..Len(PoetryExtras(path))}

\* from_poetry_checkout returned from a checkout that has a pyproject.toml
PoetryReturned ==
    /\ CheckoutDone("from_poetry_checkout")
    /\ exc = NoException
    /\ "pyproject.toml" \in DOMAIN call.path

\* C13: the requirements that from_poetry_checkout emits are those of the
\* non-optional dependencies with a version, in declaration order, followed by
\* those of the optional dependencies referenced by each extra, gated by the
\* canonical extra name; the extras are the canonical names declared in
\* tool.poetry.extras.
C13_PoetryRequirementsAndExtras ==
    PoetryReturned =>
        \A m \in {from_metadata(ret)} :
            /\ m.reqs = PlainRequirements(call.path)
                        \o AllExtraRequirements(call.path, PoetryExtras(call.path))
            /\ m.provides_extra = DeclaredExtras(call.path)

\* what the code does emit: the lines of C13 in that order, each extra
\* before its requirements, where the requirements of the extras have no
\* line end
RECURSIVE ExtraPieces(_, _)
ExtraPieces(path, extras) ==
    IF extras = <<>> THEN <<>>
    ELSE <<header(H_Provides_Extra, canonicalize_name(Head(extras).k))>>
         \o [i \in 1..Len(Head(extras).v) |->
                H_Requires_Dist \o <<":", " ">> \o ExtraRequirements(path, Head(extras))[i]]
         \o ExtraPieces(path, Tail(extras))

C13_PoetryEmitted ==
    PoetryReturned =>
        startswith(ret,
            concat([i \in 1..Len(PlainRequirements(call.path)) |->
                       header(H_Requires_Dist, PlainRequirements(call.path)[i])]
                   \o ExtraPieces(call.path, PoetryExtras(call.path))))

\* an extra with a requirement was emitted and another extra follows it
C13_Witness ==
    /\ PoetryReturned
    /\ Len(PlainRequirements(call.path)) > 1
    /\ Len(PoetryExtras(call.path)) > 1
    /\ AllExtraRequirements(call.path, PoetryExtras(call.path)) # <<>>

\* the keyword arguments that the walk of setup.py recorded: None, or a dict
SetupCallArgs(path) == visit(SetupFindingVisitor, path["setup.py"]).setup_call_args

\* the keys of the setup call that from_setup_py_checkout reads
ConsumedKeys ==
    {"install_requires", "extras_require", "name", "python_requires", "url",
     "project_urls"}

UnknownKeys(args) ==
    IF args = {} THEN {} ELSE {k \in DOMAIN the(args) : is_UNKNOWN(the(args)[k])}

C14_WitnessIgnored ==
    /\ CheckoutDone("from_setup_py_checkout")
    /\ DOMAIN call.path = {"setup.py"}
    /\ exc = NoException
    /\ ret # <<>>
    /\ UnknownKeys(SetupCallArgs(call.path)) = {"zip_safe"}

\* the exceptions that stand for something absent: a file, a table, a
\* section, an option, a key
AbsenceErrors == {"FileNotFoundError", "KeyError", "NoSectionError", "NoOptionError"}

\* every file of the checkout is present and empty
PresentButEmpty(path) ==
    /\ DOMAIN path # {}
    /\ \A name \in DOMAIN path \ {"setup.py"} : path[name] = EmptyDict
    /\ "setup.py" \in DOMAIN path => path["setup.py"].body = <<>>

\* C15: no source checkout function fails because a file, a table, a section,
\* a key or a name looked up in a document is absent, and
\* basic_metadata_from_source_checkout of present but empty files is the
\* empty record.
C15_AbsenceIsNeverAnError ==
    pc = "done" =>
        /\ exc.type \notin AbsenceErrors
        /\ (call.fn = "basic_metadata_from_source_checkout" /\ PresentButEmpty(call.path))
               => exc = NoException /\ ret = EmptyMetadata

\* the part of C15 that the code keeps: present but empty files give the
\* empty record, and the only failure for an absent thing is the KeyError
\* for an extra of tool.poetry.extras naming a dependency that was not saved
\* as optional
C15_KeyErrorFromExtrasOnly ==
    pc = "done" =>
        /\ exc.type \in AbsenceErrors =>
               /\ exc.type = "KeyError"
               /\ call.fn \in {"from_poetry_checkout", "from_source_checkout",
                               "basic_metadata_from_source_checkout"}
               /\ \E i \in 1..Len(PoetryExtras(call.path)) :
                      \E j \in 1..Len(PoetryExtras(call.path)[i].v) :
                          \A d \in 1..Len(VersionedDependencies(call.path)) :
                              \/ ~DepOptional(VersionedDependencies(call.path)[d].v)
                              \/ canonicalize_name(VersionedDependencies(call.path)[d].k)
                                 # canonicalize_name(PoetryExtras(call.path)[i].v[j])
        /\ (call.fn = "basic_metadata_from_source_checkout" /\ PresentButEmpty(call.path))
               => exc = NoException /\ ret = EmptyMetadata

\* a caret constraint whose components are all zero, as ^0 or ^0.0.0
AllZeroCaret(version) ==
    /\ startswith(version, <<"^">>)
    /\ \A part \in {split(Tail(version), ".")} :
           \A i \in 1..Len(part) : part[i] = <<"0">>

\* the dependency specification is handled without an exception
Translatable(v) ==
    /\ translate_version(DepVersion(v)).exc = NoException
    /\ (DepIsTable(v) /\ get_or(v.dict, "python", <<>>) # <<>>)
           => OPERATOR_RE_fullmatch(v.dict["python"]) # {}

\* the first dependency that is not handled has an all-zero caret constraint
FailsOnAllZeroCaret(path) ==
    /\ "pyproject.toml" \in DOMAIN path
    /\ \E i \in 1..Len(VersionedDependencies(path)) :
           /\ AllZeroCaret(DepVersion(VersionedDependencies(path)[i].v))
           /\ \A j \in 1..(i - 1) : Translatable(VersionedDependencies(path)[j].v)

\* C16: _translate_caret raises ValueError for a caret constraint whose
\* components are all zero; when the Poetry producer of from_source_checkout
\* meets one, from_source_checkout ends with that ValueError, returns nothing
\* and reads neither setup.cfg nor setup.py.
C16_AllZeroCaretPropagates ==
    (pc = "done" /\ "pyproject.toml" \in DOMAIN call.path) =>
        /\ \A i \in 1..Len(VersionedDependencies(call.path)) :
               AllZeroCaret(DepVersion(VersionedDependencies(call.path)[i].v))
               => _translate_caret(DepVersion(VersionedDependencies(call.path)[i].v)).exc.type
                  = "ValueError"
        /\ (/\ call.fn = "from_source_checkout"
            /\ ReturnedEmpty(from_pep621_checkout(call.path))
            /\ FailsOnAllZeroCaret(call.path))
               => /\ exc.type = "ValueError"
                  /\ ret = <<>>
                  /\ files_read = <<"pyproject.toml", "pyproject.toml">>

\* from_source_checkout failed on ^0.0.0 in a checkout whose setup.cfg has
\* metadata and that has a setup.py
C16_Witness ==
    /\ CheckoutDone("from_source_checkout")
    /\ FailsOnAllZeroCaret(call.path)
    /\ \E i \in 1..Len(VersionedDependencies(call.path)) :
           DepVersion(VersionedDependencies(call.path)[i].v) = <<"^", "0", ".", "0", ".", "0">>
    /\ exc.type = "ValueError"
    /\ DOMAIN call.path = {"pyproject.toml", "setup.cfg", "setup.py"}
    /\ ReturnedNonEmpty(from_setup_cfg_checkout(call.path))
    /\ "setup.cfg" \notin {files_read[i] : i \in 1..Len(files_read)}

\* C17: every name in the extras set of a record made from an sdist is
\* canonical (lower case, runs of "-", "_" and "." as one "-").
C17_ExtrasAreCanonical ==
    (BasicMetadataReturned /\ exc = NoException) =>
        \A e \in ret.provides_extra : e = canonicalize_name(e)

\* what the code does for an sdist: the extras are the section names of
\* requires.txt, or the Provides-Extra values of PKG-INFO, as written
C17_ExtrasAsWritten ==
    (BasicMetadataReturned /\ exc = NoException) =>
        \A e \in ret.provides_extra :
            \/ e \in PkgInfoRecord.provides_extra
            \/ e \in RequiresTxtRecord.provides_extra

\* the positions of s at which the text t occurs
Occurrences(s, t) ==
    {i \in 1..(Len(s) - Len(t) + 1) : SubSeq(s, i, i + Len(t) - 1) = t}

IsLineStart(s, i) == i = 1 \/ s[i - 1] = "\n"

\* the buffer is a sequence of complete lines, each emitted requirement and
\* extra starts a line, and parsing the buffer gives one requirement per
\* Requires-Dist emitted
CompleteHeaderLines(buffer) ==
    /\ buffer # <<>> => buffer[Len(buffer)] = "\n"
    /\ \A key \in {H_Requires_Dist, H_Provides_Extra, H_Name} :
           \A i \in Occurrences(buffer, key \o <<":", " ">>) : IsLineStart(buffer, i)
    /\ Len(from_metadata(buffer).reqs)
       = Cardinality(Occurrences(buffer, H_Requires_Dist \o <<":", " ">>))

ProducerFns ==
    {"from_pep621_checkout", "from_poetry_checkout", "from_setup_cfg_checkout",
     "from_setup_py_checkout"}

\* C18: the buffer returned by a producer is a concatenation of complete
\* header lines, one per requirement, extra and field emitted, so that
\* from_metadata gives each emitted requirement as its own element.
C18_CompleteHeaderLines ==
    (pc = "done" /\ call.fn \in ProducerFns /\ exc = NoException)
        => CompleteHeaderLines(ret)

\* what the code keeps of C18: the three producers other than
\* from_poetry_checkout return complete header lines, and so does
\* from_poetry_checkout when no extra has a requirement
C18_OtherProducers ==
    (/\ pc = "done"
     /\ call.fn \in ProducerFns
     /\ exc = NoException
     /\ \/ call.fn # "from_poetry_checkout"
        \/ "pyproject.toml" \notin DOMAIN call.path
        \/ AllExtraRequirements(call.path, PoetryExtras(call.path)) = <<>>)
        => CompleteHeaderLines(ret)

(***************************************************************************)
(* The walk of a setup.py syntax tree by SetupFindingVisitor, on its own.  *)
(* The trees are built from an import statement, a callee, a keyword       *)
(* value, the place of an assignment to the name used as keyword value,    *)
(* and the nodes the call is nested in.                                    *)
(***************************************************************************)
\* how many nodes the setup call is nested in, below the module
MaxNesting == 2

\* import setuptools / import setuptools as s / from setuptools import setup /
\* from setuptools import setup as t / from distutils import setup /
\* from distutils.core import setup / from . import setup / import os
ImportStatements ==
    <<Import(<<alias(<<"s", "e", "t", "u", "p", "t", "o", "o", "l", "s">>, {})>>),
      Import(<<alias(<<"s", "e", "t", "u", "p", "t", "o", "o", "l", "s">>, {<<"s">>})>>),
      ImportFrom({<<"s", "e", "t", "u", "p", "t", "o", "o", "l", "s">>}, <<alias(<<"s", "e", "t", "u", "p">>, {})>>, 0),
      ImportFrom({<<"s", "e", "t", "u", "p", "t", "o", "o", "l", "s">>}, <<alias(<<"s", "e", "t", "u", "p">>, {<<"t">>})>>, 0),
      ImportFrom({<<"d", "i", "s", "t", "u", "t", "i", "l", "s">>}, <<alias(<<"s", "e", "t", "u", "p">>, {})>>, 0),
      ImportFrom({<<"d", "i", "s", "t", "u", "t", "i", "l", "s", ".", "c", "o", "r", "e">>}, <<alias(<<"s", "e", "t", "u", "p">>, {})>>, 0),
      ImportFrom({}, <<alias(<<"s", "e", "t", "u", "p">>, {})>>, 1),
      Import(<<alias(<<"o", "s">>, {})>>)>>

\* setuptools.setup / s.setup / setup / t
Callees ==
    <<Attribute(Name(1, <<"s", "e", "t", "u", "p", "t", "o", "o", "l", "s">>), <<"s", "e", "t", "u", "p">>),
      Attribute(Name(1, <<"s">>), <<"s", "e", "t", "u", "p">>),
      Name(1, <<"s", "e", "t", "u", "p">>),
      Name(1, <<"t">>)>>

\* ["a"] / reqs / f()
KeywordValues ==
    <<List(<<Constant(<<"a">>)>>),
      Name(2, <<"r", "e", "q", "s">>),
      Call(Name(2, <<"f">>), <<>>, <<>>)>>

\* {["a"]: "b"}: a dict display whose key is a list
UnhashableKey == Dict(<<List(<<Constant(<<"a">>)>>)>>, <<Constant(<<"b">>)>>)

\* the keyword arguments of the call: install_requires with one of the
\* KeywordValues alone, install_requires=f() or install_requires={["a"]: "b"}
\* followed by name="n"
KeywordArguments ==
    [v \in 1..Len(KeywordValues) |-> <<keyword({"install_requires"}, KeywordValues[v])>>]
    \o <<<<keyword({"install_requires"}, KeywordValues[3]),
           keyword({"name"}, Constant(<<"n">>))>>,
         <<keyword({"install_requires"}, UnhashableKey),
           keyword({"name"}, Constant(<<"n">>))>>>>

\* reqs = [text], the target being the Name object uid
AssignReqs(uid, text) == Assign(<<Name(uid, <<"r", "e", "q", "s">>)>>, List(<<Constant(text)>>))

\* the statement with node nested in one more node of the given kind; depth
\* makes the Name objects differ; with assigned = "inner" a function body
\* starts with an assignment to reqs
Nest(kind, node, depth, assigned) ==
    CASE kind = "if" -> If(Constant(1), <<node>>, <<>>)
      [] kind = "else" -> If(Constant(1), <<>>, <<node>>)
      [] kind = "def" ->
            FunctionDef(<<"g">>,
                (IF assigned = "inner" THEN <<AssignReqs(30 + depth, <<"b">>)>> ELSE <<>>)
                \o <<node>>)
      [] kind = "arg" /\ node.type = "Expr" ->
            Expr(Call(Name(10 + depth, <<"p", "r", "i", "n", "t">>), <<node.value>>, <<>>))
      [] kind = "func" /\ node.type = "Expr" ->
            Expr(Call(node.value, <<>>, <<>>))
      [] kind = "assign" /\ node.type = "Expr" ->
            Assign(<<Name(20 + depth, <<"x">>)>>, node.value)
      [] OTHER -> node

NestKinds == {"if", "else", "def", "arg", "func", "assign"}

RECURSIVE Nested(_, _, _)
Nested(kinds, node, assigned) ==
    IF kinds = <<>> THEN node
    ELSE Nested(Tail(kinds), Nest(Head(kinds), node, Len(kinds), assigned), assigned)

\* the module: the import before or after the statement with the call, and
\* an assignment to reqs at module level unless assigned = "none"
SetupPy(import, callee, keywords, kinds, assigned, import_first) ==
    LET stmt == Nested(kinds, Expr(Call(callee, <<>>, keywords)), assigned)
        body == (IF assigned = "none" THEN <<>> ELSE <<AssignReqs(3, <<"a">>)>>)
                \o <<stmt>>
    IN  Module(IF import_first THEN <<import>> \o body ELSE body \o <<import>>)

InitVisitor ==
    /\ pc = "call"
    /\ \E i \in 1..Len(ImportStatements), c \in 1..Len(Callees),
          v \in 1..Len(KeywordArguments), kinds \in SeqsUpTo(NestKinds, MaxNesting),
          assigned \in {"none", "module", "inner"}, import_first \in BOOLEAN :
           call = [fn |-> "visit",
                   node |-> SetupPy(ImportStatements[i], Callees[c], KeywordArguments[v],
                                    kinds, assigned, import_first)]
    /\ ret = <<>>
    /\ exc = NoException
    /\ files_read = <<>>

\* v = SetupFindingVisitor(); v.visit(node)
Visit ==
    /\ pc = "call"
    /\ call.fn = "visit"
    /\ ret' = visit(SetupFindingVisitor, call.node)
    /\ exc' = ret'.raised
    /\ pc' = "done"
    /\ UNCHANGED <<call, files_read>>

NextVisitor == Visit

SpecVisitor == InitVisitor /\ [][NextVisitor]_vars

(***************************************************************************)
(* Properties of the walk.                                                 *)
(***************************************************************************)
\* the call of the tree that has keyword arguments
HasKeywords(node) == node.type = "Call" /\ node.keywords # <<>>

\* the nodes from node down to the call with keyword arguments, or <<>>
RECURSIVE PathToCall(_)
PathToCall(node) ==
    IF HasKeywords(node) THEN <<node>>
    ELSE LET children == iter_child_nodes(node)
             hits == {i \in 1..Len(children) : PathToCall(children[i]) # <<>>}
         IN  IF hits = {} THEN <<>>
             ELSE <<node>> \o PathToCall(children[CHOOSE i \in hits : TRUE])

\* the statements of body that assign to the single target named id
AssignmentsTo(body, id) ==
    {i \in 1..Len(body) :
        /\ body[i].type = "Assign"
        /\ Len(body[i].targets) = 1
        /\ body[i].targets[1].type = "Name"
        /\ body[i].targets[1].id = id}

\* the value that the identifier id has for the call at the end of path: the
\* literal assigned to it in the innermost enclosing body that assigns to it
RECURSIVE ValueInScope(_, _)
ValueInScope(path, id) ==
    IF path = <<>> THEN UNKNOWN
    ELSE LET p == path[Len(path)]
             found == IF "body" \in DOMAIN p THEN AssignmentsTo(p.body, id) ELSE {}
         IN  IF found = {} THEN ValueInScope(SubSeq(path, 1, Len(path) - 1), id)
             ELSE literal_or_UNKNOWN(
                      p.body[CHOOSE i \in found : \A j \in found : i <= j].value).value

\* the walk has ended and recorded a setup call
Recorded == pc = "done" /\ call.fn = "visit" /\ ret.setup_call_args # {}

\* the keyword value of the setup call of the tree
KeywordValue == PathToCall(call.node)[Len(PathToCall(call.node))].keywords[1].value

\* C19: a keyword argument that is a bare identifier resolves to the literal
\* assigned to that identifier in the innermost enclosing body that assigns
\* to it, and to UNKNOWN only when there is no such assignment.
C19_BareIdentifierResolved ==
    (Recorded /\ KeywordValue.type = "Name") =>
        \A expected \in {ValueInScope(PathToCall(call.node), KeywordValue.id)} :
            /\ is_UNKNOWN(expected)
                   <=> is_UNKNOWN(the(ret.setup_call_args)["install_requires"])
            /\ ~is_UNKNOWN(expected)
                   => the(ret.setup_call_args)["install_requires"] = expected

\* what the code does: a bare identifier is always UNKNOWN, whatever is
\* assigned to it
C19_BareIdentifierIsUnknown ==
    (Recorded /\ KeywordValue.type = "Name") =>
        is_UNKNOWN(the(ret.setup_call_args)["install_requires"])

\* the nodes of the tree in the order of the file
RECURSIVE Preorder(_), PreorderOfAll(_)
Preorder(node) == <<node>> \o PreorderOfAll(iter_child_nodes(node))
PreorderOfAll(nodes) ==
    IF nodes = <<>> THEN <<>>
    ELSE Preorder(Head(nodes)) \o PreorderOfAll(Tail(nodes))

\* the same without the nodes inside a call expression
RECURSIVE PreorderOutsideCalls(_), PreorderOutsideCallsOfAll(_)
PreorderOutsideCalls(node) ==
    <<node>> \o (IF node.type = "Call" THEN <<>>
                 ELSE PreorderOutsideCallsOfAll(iter_child_nodes(node)))
PreorderOutsideCallsOfAll(nodes) ==
    IF nodes = <<>> THEN <<>>
    ELSE PreorderOutsideCalls(Head(nodes)) \o PreorderOutsideCallsOfAll(Tail(nodes))

\* the import-alias table made by the import statements among the first n nodes
RECURSIVE AliasTable(_, _)
AliasTable(nodes, n) ==
    IF n = 0 THEN EmptyDict
    ELSE LET table == AliasTable(nodes, n - 1)
             node == nodes[n]
         IN  CASE node.type = "Import" -> import_names(table, node.names, <<>>)
               [] node.type = "ImportFrom" ->
                     visit_ImportFrom([qualified_name_prefixes |-> table],
                                      node).qualified_name_prefixes
               [] OTHER -> table

\* the p-th node is a call whose callee has the qualified name
\* setuptools.setup or distutils.setup under the imports before it
IsSetupCall(nodes, p) ==
    /\ nodes[p].type = "Call"
    /\ \A qn \in {qualified_name(AliasTable(nodes, p - 1), nodes[p].func)} :
           qn.exc = NoException /\ qn.value \in {SETUPTOOLS_SETUP, DISTUTILS_SETUP}

\* C20: a setup call is recorded exactly when some call expression of the
\* file, wherever it is in the tree, has a callee whose qualified name under
\* the imports before it is setuptools.setup or distutils.setup.
C20_EverySetupCallRecorded ==
    (pc = "done" /\ call.fn = "visit") =>
        \A nodes \in {Preorder(call.node)} :
            ret.setup_call_args # {} <=> \E p \in 1..Len(nodes) : IsSetupCall(nodes, p)

\* what the code does: the same for the call expressions that are not
\* inside another call expression
C20_CallsOutsideCallsRecorded ==
    (pc = "done" /\ call.fn = "visit") =>
        \A nodes \in {PreorderOutsideCalls(call.node)} :
            ret.setup_call_args # {} <=> \E p \in 1..Len(nodes) : IsSetupCall(nodes, p)


(***************************************************************************)
(* The evaluation of the keyword arguments of a recorded call.             *)
(***************************************************************************)
\* the keyword arguments of the call of the tree
Keywords == PathToCall(call.node)[Len(PathToCall(call.node))].keywords

\* the walk has ended, with or without an exception
Walked == pc = "done" /\ call.fn = "visit"

\* the i-th keyword is recorded as the literal it is written as, or as UNKNOWN
\* when it is not written as a literal
LiteralOrUnknown(d, i) ==
    LET value == literal_eval(Keywords[i].value)
        arg == the(Keywords[i].arg)
    IN  /\ arg \in DOMAIN d
        /\ d[arg] = IF value.exc = NoException THEN Literal(value.value) ELSE UNKNOWN

\* C21: evaluating the keyword arguments of a recorded setup call never
\* raises: every named keyword is recorded as the value of its literal
\* expression or as UNKNOWN, and a keyword recorded as UNKNOWN does not
\* prevent the other keywords of the call from being recorded.
C21_KeywordEvaluationNeverRaises ==
    Walked =>
        /\ exc = NoException
        /\ ret.setup_call_args # {} =>
               \A i \in 1..Len(Keywords) : LiteralOrUnknown(the(ret.setup_call_args), i)

\* the keyword arguments whose value is a dict display with a key that is
\* not hashable
UnhashableKeywords ==
    {i \in 1..Len(Keywords) :
        /\ Keywords[i].value.type = "Dict"
        /\ \E j \in 1..Len(Keywords[i].value.keys) : unhashable(Keywords[i].value.keys[j])}

\* what the code does: the walk raises TypeError when the recorded call has
\* such a keyword, and the keywords after it are not recorded; without such
\* a keyword every keyword is recorded, the ones after an UNKNOWN included
C21_RaisesOnlyOnUnhashableKey ==
    (Walked /\ ret.setup_call_args # {}) =>
        /\ exc # NoException <=> UnhashableKeywords # {}
        /\ exc # NoException => exc = [type |-> "TypeError"]
        /\ \A i \in 1..Len(Keywords) :
               IF \E j \in UnhashableKeywords : j <= i
               THEN the(Keywords[i].arg) \notin DOMAIN the(ret.setup_call_args)
               ELSE LiteralOrUnknown(the(ret.setup_call_args), i)

\* a keyword after a keyword recorded as UNKNOWN is recorded as its literal
C21_WitnessUnknownThenLiteral ==
    /\ Walked
    /\ ret.setup_call_args # {}
    /\ exc = NoException
    /\ Len(Keywords) = 2
    /\ is_UNKNOWN(the(ret.setup_call_args)["install_requires"])
    /\ the(ret.setup_call_args)["name"] = Literal(<<"n">>)


(***************************************************************************)
(* The walk of SetupFindingVisitor one node at a time: pc holds the number *)
(* of nodes whose visitor method has run and whether visit(mod) has        *)
(* returned or raised.  ret is the visitor object.                         *)
(***************************************************************************)
\* how many statements the module has
MaxStatements == 3

\* the nodes in the order their visitor methods run, each with the stack it
\* runs under: the children of a node are visited only below generic_visit
RECURSIVE Visits(_, _), VisitsOfAll(_, _)
Visits(stack, node) ==
    <<[node |-> node, stack |-> Append(stack, node)]>>
    \o (IF visits_children(node)
        THEN VisitsOfAll(Append(stack, node), iter_child_nodes(node))
        ELSE <<>>)
VisitsOfAll(stack, nodes) ==
    IF nodes = <<>> THEN <<>>
    ELSE Visits(stack, Head(nodes)) \o VisitsOfAll(stack, Tail(nodes))

\* setuptools.setup(keywords)
SetupCall(keywords) ==
    Call(Attribute(Name(1, <<"s", "e", "t", "u", "p", "t", "o", "o", "l", "s">>), <<"s", "e", "t", "u", "p">>),
         <<>>, keywords)

\* import setuptools / setuptools.setup(name="n") / setuptools.setup(url="u") /
\* setuptools.setup() / f() / if 1: setuptools.setup(install_requires=f()) /
\* print(setuptools.setup(name="x")) / setuptools.setup(name={["a"]: "b"})
Statements ==
    <<ImportStatements[1],
      Expr(SetupCall(<<keyword({"name"}, Constant(<<"n">>))>>)),
      Expr(SetupCall(<<keyword({"url"}, Constant(<<"u">>))>>)),
      Expr(SetupCall(<<>>)),
      Expr(Call(Name(2, <<"f">>), <<>>, <<>>)),
      If(Constant(1), <<Expr(SetupCall(<<keyword({"install_requires"}, KeywordValues[3])>>))>>, <<>>),
      Expr(Call(Name(3, <<"p", "r", "i", "n", "t">>),
                <<SetupCall(<<keyword({"name"}, Constant(<<"x">>))>>)>>, <<>>)),
      Expr(SetupCall(<<keyword({"name"}, UnhashableKey)>>))>>

InitWalk ==
    /\ pc = [visited |-> 0, returned |-> FALSE]
    /\ \E body \in SeqsUpTo(1..Len(Statements), MaxStatements) :
           call = [fn |-> "walk",
                   node |-> Module([i \in 1..Len(body) |-> Statements[body[i]]])]
    /\ ret = SetupFindingVisitor
    /\ exc = NoException
    /\ files_read = <<>>

\* the visitor method of the next node runs, under the stack of that node
VisitNode ==
    /\ call.fn = "walk"
    /\ ~pc.returned
    /\ exc = NoException
    /\ \E visits \in {Visits(<<>>, call.node)} :
           /\ pc.visited < Len(visits)
           /\ ret' = visit_node([ret EXCEPT !.stack = visits[pc.visited + 1].stack],
                                visits[pc.visited + 1].node)
    /\ exc' = ret'.raised
    /\ pc' = [pc EXCEPT !.visited = @ + 1]
    /\ UNCHANGED <<call, files_read>>

\* visit(mod) returns after the last node, or raises: the stack is popped
\* on the way out
EndWalk ==
    /\ call.fn = "walk"
    /\ ~pc.returned
    /\ pc.visited = Len(Visits(<<>>, call.node)) \/ exc # NoException
    /\ pc' = [pc EXCEPT !.returned = TRUE]
    /\ ret' = [ret EXCEPT !.stack = <<>>]
    /\ UNCHANGED <<call, exc, files_read>>

NextWalk == VisitNode \/ EndWalk

SpecWalk == InitWalk /\ [][NextWalk]_vars

\* the walk taken node by node ends as v.visit(mod) does
WalkIsVisit == pc.returned => ret = visit(SetupFindingVisitor, call.node)

\* the nodes whose visitor method has run
Visited == [i \in 1..pc.visited |-> Visits(<<>>, call.node)[i].node]

\* the setup calls among them
MatchingCalls == {p \in 1..Len(Visited) : IsSetupCall(Visited, p)}

\* the mapping of the named keywords of call alone, each to its literal or
\* to UNKNOWN
KeywordMapping(node) ==
    LET named == {i \in 1..Len(node.keywords) : node.keywords[i].arg # {}}
    IN  [arg \in {the(node.keywords[i].arg) : i \in named} |->
            LET k == node.keywords[CHOOSE i \in named : the(node.keywords[i].arg) = arg]
                value == literal_eval(k.value)
            IN  IF value.exc = NoException THEN Literal(value.value) ELSE UNKNOWN]

\* C22: setup_call_args is None from the start of the walk until the first
\* matching call is visited, and after the walk it is None if and only if
\* no matching call was visited; otherwise it is the keyword mapping of the
\* last matching call visited, built from that call alone; a matching call
\* without keyword arguments gives the empty mapping, which is not None.
C22_LastMatchingCallAlone ==
    call.fn = "walk" =>
        /\ ret.setup_call_args = {} <=> MatchingCalls = {}
        /\ (MatchingCalls # {} /\ exc = NoException) =>
               \A last \in {CHOOSE p \in MatchingCalls : \A q \in MatchingCalls : q <= p} :
                   /\ ret.setup_call_args = {KeywordMapping(Visited[last])}
                   /\ Visited[last].keywords = <<>> => ret.setup_call_args = {EmptyDict}

\* the walk has returned after a setup call with a keyword and then a setup
\* call without keywords: the empty mapping is recorded
C22_Witness ==
    /\ call.fn = "walk"
    /\ pc.returned
    /\ exc = NoException
    /\ Cardinality(MatchingCalls) >= 2
    /\ \E p \in MatchingCalls : Visited[p].keywords # <<>>
    /\ ret.setup_call_args = {EmptyDict}

(***************************************************************************)
(* The python constraint of a table-valued Poetry dependency.              *)
(***************************************************************************)
\* the table-valued dependencies with a non-empty python constraint
PythonConstrained(path) ==
    SelectSeq(PoetryDependencies(path),
              LAMBDA it : /\ it.k # <<"p", "y", "t", "h", "o", "n">>
                          /\ DepIsTable(it.v)
                          /\ get_or(it.v.dict, "python", <<>>) # <<>>)

\* the constraint is operator characters followed by a version that starts
\* with a digit
IsOperatorAndVersion(python) ==
    \E n \in 1..(Len(python) - 1) :
        /\ \A i \in 1..n : python[i] \in {"<", ">", "=", "~"}
        /\ python[n + 1] \in Digits
        /\ \A i \in (n + 1)..Len(python) : python[i] # "\n"

\* python_version <op> '<version>' for such a constraint
PythonFragment(python) ==
    LET n == CHOOSE n \in 0..Len(python) :
                 /\ \A i \in 1..n : python[i] \in {"<", ">", "=", "~"}
                 /\ n < Len(python) => python[n + 1] \notin {"<", ">", "=", "~"}
    IN  <<"p", "y", "t", "h", "o", "n", "_", "v", "e", "r", "s", "i", "o", "n", " ">>
        \o SubSeq(python, 1, n) \o <<" ", "'">> \o SubSeq(python, n + 1, Len(python)) \o <<"'">>

\* the buffer has the requirement line of the dependency, ending with the
\* marker made of its markers and its python constraint
RewrittenIn(buffer, it) ==
    LET v == it.v.dict
        line == header(H_Requires_Dist,
                    canonicalize_name(it.k) \o DepConstraint(it.v) \o <<" ", ";", " ">>
                    \o combine_markers(<<get_or(v, "markers", <<>>),
                                         PythonFragment(v["python"])>>))
    IN  \E i \in 1..Len(buffer) :
            IsLineStart(buffer, i) /\ startswith(SubSeq(buffer, i, Len(buffer)), line)

\* from_poetry_checkout has ended on a pyproject.toml
PoetryEnded == CheckoutDone("from_poetry_checkout") /\ "pyproject.toml" \in DOMAIN call.path

\* C23: every non-empty python constraint of a table-valued dependency is
\* rewritten to python_version <op> '<version>' and appended, combined with
\* the markers, after " ; "; the assertion that the constraint matches the
\* operator pattern never fails.
C23_PythonConstraintAlwaysMatches ==
    PoetryEnded =>
        /\ exc # [type |-> "AssertionError"]
        /\ exc = NoException =>
               \A deps \in {PythonConstrained(call.path)} :
                   \A i \in 1..Len(deps) :
                       (DepVersion(deps[i].v) # <<>> /\ ~DepOptional(deps[i].v))
                           => RewrittenIn(ret, deps[i])

\* what the code does: the constraints that are operator characters followed
\* by a digit are rewritten as claimed; any other one, such as a caret
\* constraint, fails the assertion, unless an earlier dependency raised
C23_OtherConstraintsFailTheAssertion ==
    PoetryEnded =>
        \A deps \in {PythonConstrained(call.path)} :
            /\ exc = [type |-> "AssertionError"]
                   => \E i \in 1..Len(deps) : ~IsOperatorAndVersion(deps[i].v.dict["python"])
            /\ (\E i \in 1..Len(deps) : ~IsOperatorAndVersion(deps[i].v.dict["python"]))
                   => exc # NoException
            /\ exc = NoException =>
                   \A i \in 1..Len(deps) :
                       (DepVersion(deps[i].v) # <<>> /\ ~DepOptional(deps[i].v))
                           => RewrittenIn(ret, deps[i])

\* a python constraint was rewritten into the marker of a requirement
C23_WitnessRewritten ==
    /\ PoetryEnded
    /\ exc = NoException
    /\ \E i \in 1..Len(PythonConstrained(call.path)) :
           RewrittenIn(ret, PythonConstrained(call.path)[i])


(***************************************************************************)
(* The functions that return a record against the functions that return    *)
(* metadata bytes.                                                         *)
(***************************************************************************)
\* what the function of the other family returns for the container of the
\* call to a basic_metadata function of sdist.py
EmulatedMetadata ==
    IF call.fn = "basic_metadata_from_zip_sdist" THEN from_zip_sdist(call.zf)
    ELSE from_tar_sdist(call.tf)

\* both functions succeed on the sdist
BothSucceed ==
    BasicMetadataReturned /\ exc = NoException /\ EmulatedMetadata.exc = NoException

C24_WheelAgrees ==
    (pc = "done" /\ call.fn = "basic_metadata_from_wheel") =>
        \A metadata \in {from_wheel(call.zf, call.project_name)} :
            /\ exc = metadata.exc
            /\ exc = NoException => ret = from_metadata(metadata.value)

\* for a source checkout the record is from_metadata of the bytes of
\* from_source_checkout, and the two fail alike
C24_SourceCheckoutAgrees ==
    CheckoutDone("basic_metadata_from_source_checkout") =>
        \A metadata \in {from_source_checkout(call.path)} :
            /\ exc = metadata.exc
            /\ exc = NoException => ret = from_metadata(metadata.value)

====
